---- MODULE Spec2Model ----
(***************************************************************************)
(* ESTL fixed-capacity ordered map: the node arena, the two balancing      *)
(* strategies (RBTree, AVLTree) and the operations of the tree contract.   *)
(* Pointers are arena slot numbers 1..Capacity, nullptr is Null.           *)
(***************************************************************************)
EXTENDS Integers, Sequences, FiniteSets, TLC

\* Bounds of the model.
Capacity == 3       \* arena size of the map driven with every key and value
MaxKey == 4
ShapeCapacity == 4  \* arena size of the trees driven with one value
DeepCapacity == 5   \* arena size of the deeper trees driven with one value
GrowCapacity == 7   \* arena size of the trees that are only inserted into
WideCapacity == 8   \* arena size of the map built from an initializer list
ThreadCount == 2    \* threads that call into one map
ThreadCapacity == 2 \* arena size of the map that two threads call freely
ThreadMaxKey == 3
LongTask == 8       \* keys of the first thread that runs insertTask / eraseTask
BucketCount == 2    \* primary buckets of the unordered map (m_mapCapacity)
BucketPoolSize == 1 \* chained buckets of the unordered map (m_bucketPoolCapacity)
HashMaxKey == 4
ShortTask == 1      \* keys of every other thread that runs them

Keys == 1..MaxKey
\* Two distinct values: no operation inspects a value, it is only stored,
\* copied and returned, so two tell "the first value" from "the second".
Values == {1, 2}
HashKeys == 1..HashMaxKey
ShapeKeys == 1..ShapeCapacity
DeepKeys == 1..DeepCapacity
GrowKeys == 1..GrowCapacity
WideKeys == 1..WideCapacity
\* nullptr
Null == 0
\* std::mutex that no thread holds
Unlocked == 0
Threads == 1..ThreadCount
ThreadKeys == 1..ThreadMaxKey

VARIABLES
    m_nodes,      \* the arena: slot -> node record
    m_root,       \* root slot or Null
    m_freeNodes,  \* head of the free list (chained through .right) or Null
    m_size,       \* element counter
    m_capacity,   \* arena size, fixed at construction
    treeType,     \* "RedBlack" or "AVL", fixed at construction
    crashed,      \* TRUE once an operation dereferenced nullptr
    last,         \* the last call: [op, key, value, ret]; value is the value
                  \* passed in, or the value handed back by find / extract / []
    m_mutex,      \* FixedMap::m_mutex: Unlocked or the thread that holds it
    other,        \* the map passed to merge: [t, mutex]
    pc,           \* thread -> the public call it is in
    task,         \* the phase of the threads that run insertTask / eraseTask
    visible,      \* history: key -> value of an insert that returned true with
                  \* no erase, extract or clear of the key since (0: none)
    retry         \* history: the insert refused for lack of room, and whether
                  \* an erase has succeeded since

treeVars == <<m_nodes, m_root, m_freeNodes, m_size, m_capacity, treeType, crashed, last>>
mapVars == <<m_mutex, other, pc, task, visible, retry>>
vars == <<m_nodes, m_root, m_freeNodes, m_size, m_capacity, treeType, crashed, last,
          m_mutex, other, pc, task, visible, retry>>

\* TreeNode / RBTreeNode / AVLTreeNode: one record carries both balance tags;
\* RBTree only touches .red, AVLTree only touches .height.
\* key = 0 / value = 0 stand for the never-read content of a fresh slot.
FreshNode(nextFree) ==
    [key |-> 0, value |-> 0, in_use |-> FALSE, left |-> Null, right |-> nextFree,
     parent |-> Null, red |-> FALSE, height |-> 0]

\* The tree object the member functions work on.
Tree == [nodes |-> m_nodes, root |-> m_root, free |-> m_freeNodes, size |-> m_size,
         capacity |-> m_capacity, fault |-> FALSE]

\* A nullptr dereference.
Fault(t) == [t EXCEPT !.fault = TRUE]

\* p->left, p->right, p->parent read through a pointer that is known non-null
\* by the caller; a Null argument yields Null so that a following write faults.
L(t, i) == IF i = Null THEN Null ELSE t.nodes[i].left
R(t, i) == IF i = Null THEN Null ELSE t.nodes[i].right
P(t, i) == IF i = Null THEN Null ELSE t.nodes[i].parent

SetLeft(t, i, v) ==
    IF t.fault \/ i = Null THEN Fault(t) ELSE [t EXCEPT !.nodes[i].left = v]
SetRight(t, i, v) ==
    IF t.fault \/ i = Null THEN Fault(t) ELSE [t EXCEPT !.nodes[i].right = v]
SetParent(t, i, v) ==
    IF t.fault \/ i = Null THEN Fault(t) ELSE [t EXCEPT !.nodes[i].parent = v]
SetRed(t, i, v) ==
    IF t.fault \/ i = Null THEN Fault(t) ELSE [t EXCEPT !.nodes[i].red = v]

InUse(t, i) == i # Null /\ t.nodes[i].in_use

\* Statement sequencing: Rest runs on what the statement before it left.
Then(v, Rest(_)) == Rest(v)

----------------------------------------------------------------------------
(* Pointer surgery shared by both strategies (each strategy re-declares it  *)
(* with the same body).                                                     *)

\* rotateLeft: link rewiring.
rotateLeft(t, node) ==
    IF t.fault \/ node = Null \/ R(t, node) = Null THEN Fault(t)
    ELSE
    LET rightChild == t.nodes[node].right IN
    Then(SetRight(t, node, t.nodes[rightChild].left), LAMBDA t1 :
    Then(IF t1.nodes[rightChild].left # Null
         THEN SetParent(t1, t1.nodes[rightChild].left, node) ELSE t1, LAMBDA t2 :
    Then(SetParent(t2, rightChild, t2.nodes[node].parent), LAMBDA t3 :
    Then(IF t3.nodes[node].parent = Null THEN [t3 EXCEPT !.root = rightChild]
         ELSE IF node = t3.nodes[t3.nodes[node].parent].left
         THEN SetLeft(t3, t3.nodes[node].parent, rightChild)
         ELSE SetRight(t3, t3.nodes[node].parent, rightChild), LAMBDA t4 :
    SetParent(SetLeft(t4, rightChild, node), node, rightChild)))))

\* rotateRight: link rewiring.
rotateRight(t, node) ==
    IF t.fault \/ node = Null \/ L(t, node) = Null THEN Fault(t)
    ELSE
    LET leftChild == t.nodes[node].left IN
    Then(SetLeft(t, node, t.nodes[leftChild].right), LAMBDA t1 :
    Then(IF t1.nodes[leftChild].right # Null
         THEN SetParent(t1, t1.nodes[leftChild].right, node) ELSE t1, LAMBDA t2 :
    Then(SetParent(t2, leftChild, t2.nodes[node].parent), LAMBDA t3 :
    Then(IF t3.nodes[node].parent = Null THEN [t3 EXCEPT !.root = leftChild]
         ELSE IF node = t3.nodes[t3.nodes[node].parent].right
         THEN SetRight(t3, t3.nodes[node].parent, leftChild)
         ELSE SetLeft(t3, t3.nodes[node].parent, leftChild), LAMBDA t4 :
    SetParent(SetRight(t4, leftChild, node), node, leftChild)))))

\* Mutant of transplant: v is linked under u's parent but keeps its old
\* parent link.
transplant_noParent(t, u, v) ==
    IF t.fault \/ u = Null THEN Fault(t)
    ELSE IF t.nodes[u].parent = Null THEN [t EXCEPT !.root = v]
    ELSE IF u = t.nodes[t.nodes[u].parent].left THEN SetLeft(t, t.nodes[u].parent, v)
    ELSE SetRight(t, t.nodes[u].parent, v)

\* transplant(u, v): v takes u's place under u's parent.
transplant(t, u, v) ==
    IF t.fault \/ u = Null THEN Fault(t)
    ELSE
    Then(IF t.nodes[u].parent = Null THEN [t EXCEPT !.root = v]
         ELSE IF u = t.nodes[t.nodes[u].parent].left THEN SetLeft(t, t.nodes[u].parent, v)
         ELSE SetRight(t, t.nodes[u].parent, v), LAMBDA t1 :
    IF v # Null THEN SetParent(t1, v, t1.nodes[u].parent) ELSE t1)

\* findNode: iterative descent; Null when the key is absent.
RECURSIVE findFrom(_, _, _)
findFrom(t, current, key) ==
    IF current # Null /\ t.nodes[current].in_use
    THEN IF key < t.nodes[current].key THEN findFrom(t, t.nodes[current].left, key)
         ELSE IF t.nodes[current].key < key THEN findFrom(t, t.nodes[current].right, key)
         ELSE current
    ELSE Null

\* Mutant of findNode: on a miss the last node visited is returned, not nullptr.
RECURSIVE closestFrom(_, _, _)
closestFrom(t, current, key) ==
    IF key < t.nodes[current].key /\ InUse(t, t.nodes[current].left)
    THEN closestFrom(t, t.nodes[current].left, key)
    ELSE IF t.nodes[current].key < key /\ InUse(t, t.nodes[current].right)
    THEN closestFrom(t, t.nodes[current].right, key)
    ELSE current

findNode_closest(t, key) ==
    IF InUse(t, t.root) THEN closestFrom(t, t.root, key) ELSE Null

findNode(t, key) == findFrom(t, t.root, key)

\* minimum(node): leftmost in-use descendant, Null for an absent or unused node.
RECURSIVE leftmost(_, _)
leftmost(t, current) ==
    IF InUse(t, t.nodes[current].left) THEN leftmost(t, t.nodes[current].left)
    ELSE current

minimum(t, node) ==
    IF node = Null \/ ~t.nodes[node].in_use THEN Null ELSE leftmost(t, node)

RECURSIVE rightmost(_, _)
rightmost(t, current) ==
    IF InUse(t, t.nodes[current].right) THEN rightmost(t, t.nodes[current].right)
    ELSE current

\* The upward walk of next(): past every ancestor reached from its right child.
RECURSIVE climbRight(_, _, _)
climbRight(t, current, parent) ==
    IF parent # Null /\ current = t.nodes[parent].right
    THEN climbRight(t, parent, t.nodes[parent].parent)
    ELSE parent

\* Mutant of next: without a right subtree the parent is returned unconditionally.
next_noClimb(t, node) ==
    IF node = Null \/ ~t.nodes[node].in_use THEN Null
    ELSE IF InUse(t, t.nodes[node].right) THEN minimum(t, t.nodes[node].right)
    ELSE t.nodes[node].parent

\* next(node): in-order successor, Null at the end.
next(t, node) ==
    IF node = Null \/ ~t.nodes[node].in_use THEN Null
    ELSE IF InUse(t, t.nodes[node].right) THEN minimum(t, t.nodes[node].right)
    ELSE climbRight(t, node, t.nodes[node].parent)

RECURSIVE climbLeft(_, _, _)
climbLeft(t, current, parent) ==
    IF parent # Null /\ current = t.nodes[parent].left
    THEN climbLeft(t, parent, t.nodes[parent].parent)
    ELSE parent

\* Mutant of prev(): the parent is returned without the upward walk.
prev_noClimb(t, node) ==
    IF node = Null \/ ~t.nodes[node].in_use
    THEN IF t.root = Null THEN Null ELSE rightmost(t, t.root)
    ELSE IF InUse(t, t.nodes[node].left) THEN rightmost(t, t.nodes[node].left)
    ELSE t.nodes[node].parent

\* prev(node): in-order predecessor; the largest node for Null or an unused node.
prev(t, node) ==
    IF node = Null \/ ~t.nodes[node].in_use
    THEN IF t.root = Null THEN Null ELSE rightmost(t, t.root)
    ELSE IF InUse(t, t.nodes[node].left) THEN rightmost(t, t.nodes[node].left)
    ELSE climbLeft(t, node, t.nodes[node].parent)

----------------------------------------------------------------------------
(* Red-Black strategy (RBTree).                                             *)

\* Mutant of RBTree::allocateNode: the node is handed out but stays the head
\* of the free list.
RBTree_allocateNode_noPop(t) ==
    LET node == t.free IN
    [t EXCEPT !.nodes[node] = [@ EXCEPT !.right = Null, !.left = Null, !.parent = Null,
                                        !.red = TRUE, !.in_use = TRUE]]

\* RBTree::allocateNode: pop the free list; the node starts red and in use.
\* The caller has checked that the free list is not empty.
RBTree_allocateNode(t) ==
    LET node == t.free IN
    [t EXCEPT !.free = t.nodes[node].right,
              !.nodes[node] = [@ EXCEPT !.right = Null, !.left = Null, !.parent = Null,
                                        !.red = TRUE, !.in_use = TRUE]]

\* Mutant of RBTree::deallocateNode: the node is reset but never pushed.
RBTree_deallocateNode_noPush(t, node) ==
    IF t.fault \/ node = Null THEN Fault(t)
    ELSE [t EXCEPT !.nodes[node] = [@ EXCEPT !.in_use = FALSE, !.red = FALSE,
                                             !.left = Null, !.parent = Null,
                                             !.right = t.free]]

\* RBTree::deallocateNode: reset and push on the free list.
RBTree_deallocateNode(t, node) ==
    IF t.fault \/ node = Null THEN Fault(t)
    ELSE [t EXCEPT !.nodes[node] = [@ EXCEPT !.in_use = FALSE, !.red = FALSE,
                                             !.left = Null, !.parent = Null,
                                             !.right = t.free],
                   !.free = node]

\* The balanceHelper lambda of balanceAfterInsertion. Its node parameter is a
\* copy: what it assigns to node is not seen by the calling loop.
RBTree_insertHelper(t, node, uncle, isParentLeft) ==
    IF t.fault THEN t
    ELSE IF uncle # Null /\ t.nodes[uncle].red
    THEN \* Case 1: red uncle
         Then(SetRed(SetRed(t, uncle, FALSE), P(t, node), FALSE), LAMBDA t1 :
         SetRed(t1, P(t1, P(t1, node)), TRUE))
    ELSE \* Case 2 (triangle) then case 3 (line)
         LET par      == P(t, node)
             triangle == IF isParentLeft THEN node = R(t, par) ELSE node = L(t, par)
             n1       == IF triangle THEN par ELSE node
         IN
         Then(IF triangle
              THEN (IF isParentLeft THEN rotateLeft(t, n1) ELSE rotateRight(t, n1))
              ELSE t, LAMBDA t1 :
         Then(SetRed(t1, P(t1, n1), FALSE), LAMBDA t2 :
         Then(SetRed(t2, P(t2, P(t2, n1)), TRUE), LAMBDA t3 :
         IF t3.fault THEN t3
         ELSE IF isParentLeft THEN rotateRight(t3, P(t3, P(t3, n1)))
         ELSE rotateLeft(t3, P(t3, P(t3, n1))))))

\* The while loop of balanceAfterInsertion.
RECURSIVE RBTree_insertLoop(_, _)
RBTree_insertLoop(t, node) ==
    IF t.fault THEN t
    ELSE IF node = t.root THEN t
    ELSE IF P(t, node) = Null THEN Fault(t)
    ELSE IF ~t.nodes[P(t, node)].red THEN t
    ELSE LET par == P(t, node)
             gp  == P(t, par)
         IN  IF gp = Null THEN Fault(t)
             ELSE IF par = t.nodes[gp].left
             THEN RBTree_insertLoop(RBTree_insertHelper(t, node, t.nodes[gp].right, TRUE), node)
             ELSE RBTree_insertLoop(RBTree_insertHelper(t, node, t.nodes[gp].left, FALSE), node)

\* RBTree::balanceAfterInsertion.
RBTree_balanceAfterInsertion(t, node) ==
    Then(RBTree_insertLoop(t, node), LAMBDA t1 :
    SetRed(t1, t1.root, FALSE))

\* The balanceHelper lambda of balanceAfterDeletion (node again a copy).
\* "c ? a->red : b->red = false" assigns only when c is false.
RBTree_deleteHelper(t, node, sibling, isSiblingLeft) ==
    IF t.fault THEN t
    ELSE
    LET red1 == sibling # Null /\ t.nodes[sibling].red IN
    \* Case 1: red sibling
    Then(IF red1
         THEN Then(SetRed(t, sibling, FALSE), LAMBDA a1 :
              Then(SetRed(a1, P(a1, node), TRUE), LAMBDA a2 :
              IF isSiblingLeft THEN rotateRight(a2, P(a2, node))
              ELSE rotateLeft(a2, P(a2, node))))
         ELSE t, LAMBDA t1 :
    Then(IF ~red1 THEN sibling
         ELSE IF t1.fault THEN Null
         ELSE IF isSiblingLeft THEN L(t1, P(t1, node)) ELSE R(t1, P(t1, node)), LAMBDA s1 :
    IF t1.fault \/ s1 = Null THEN Fault(t1)
    ELSE
    LET leftBlack  == L(t1, s1) = Null \/ ~t1.nodes[L(t1, s1)].red
        rightBlack == R(t1, s1) = Null \/ ~t1.nodes[R(t1, s1)].red
        case3      == IF isSiblingLeft THEN leftBlack ELSE rightBlack
    IN
    IF leftBlack /\ rightBlack
    THEN \* Case 2
         SetRed(t1, s1, TRUE)
    ELSE
    \* Case 3
    Then(IF case3
         THEN Then(IF isSiblingLeft
                   THEN (IF R(t1, s1) = Null THEN Fault(t1) ELSE t1)
                   ELSE SetRed(t1, L(t1, s1), FALSE), LAMBDA b1 :
              Then(SetRed(b1, s1, TRUE), LAMBDA b2 :
              IF isSiblingLeft THEN rotateLeft(b2, s1) ELSE rotateRight(b2, s1)))
         ELSE t1, LAMBDA t2 :
    Then(IF ~case3 THEN s1
         ELSE IF t2.fault THEN Null
         ELSE IF isSiblingLeft THEN L(t2, P(t2, node)) ELSE R(t2, P(t2, node)), LAMBDA s2 :
    IF t2.fault \/ s2 = Null \/ P(t2, node) = Null THEN Fault(t2)
    ELSE
    \* Case 4
    Then(SetRed(t2, s2, t2.nodes[P(t2, node)].red), LAMBDA c1 :
    Then(SetRed(c1, P(c1, node), FALSE), LAMBDA c2 :
    Then(IF isSiblingLeft
         THEN (IF L(c2, s2) = Null THEN Fault(c2) ELSE c2)
         ELSE SetRed(c2, R(c2, s2), FALSE), LAMBDA c3 :
    IF c3.fault THEN c3
    ELSE IF isSiblingLeft THEN rotateRight(c3, P(c3, node))
    ELSE rotateLeft(c3, P(c3, node)))))))))

\* The while loop of balanceAfterDeletion; node is never Null here.
RECURSIVE RBTree_deleteLoop(_, _)
RBTree_deleteLoop(t, node) ==
    IF t.fault THEN t
    ELSE IF node # t.root /\ ~t.nodes[node].red
    THEN LET par == P(t, node)
         IN  IF par = Null THEN Fault(t)
             ELSE IF node = t.nodes[par].left
             THEN RBTree_deleteLoop(RBTree_deleteHelper(t, node, t.nodes[par].right, FALSE), node)
             ELSE RBTree_deleteLoop(RBTree_deleteHelper(t, node, t.nodes[par].left, TRUE), node)
    ELSE t

\* Mutant of RBTree::balanceAfterDeletion: the terminal node is not forced black.
RBTree_balanceAfterDeletion_noBlacken(t, node) == RBTree_deleteLoop(t, node)

\* RBTree::balanceAfterDeletion.
RBTree_balanceAfterDeletion(t, node) ==
    Then(RBTree_deleteLoop(t, node), LAMBDA t1 :
    IF node # Null THEN SetRed(t1, node, FALSE) ELSE t1)

\* The BST descent of insert: the parent to link under, or Null on a duplicate.
RECURSIVE descend(_, _, _)
descend(t, current, key) ==
    IF key < t.nodes[current].key
    THEN IF t.nodes[current].left = Null THEN current
         ELSE descend(t, t.nodes[current].left, key)
    ELSE IF t.nodes[current].key < key
    THEN IF t.nodes[current].right = Null THEN current
         ELSE descend(t, t.nodes[current].right, key)
    ELSE Null

\* RBTree::insert past its capacity check. Result: the tree and the returned
\* value ("out_of_range" when allocateNode throws).
RBTree_insertNode(t, key, value) ==
    IF t.free = Null THEN [t |-> t, ret |-> "out_of_range"]
    ELSE
    LET newNode == t.free IN
    Then([RBTree_allocateNode(t) EXCEPT !.nodes[newNode].key = key,
                                        !.nodes[newNode].value = value], LAMBDA t1 :
    IF t1.root = Null
    THEN [t |-> [t1 EXCEPT !.root = newNode, !.nodes[newNode].red = FALSE,
                           !.size = t1.size + 1],
          ret |-> "true"]
    ELSE
    Then(descend(t1, t1.root, key), LAMBDA parent :
    IF parent = Null
    THEN [t |-> RBTree_deallocateNode(t1, newNode), ret |-> "false"]
    ELSE
    Then(SetParent(t1, newNode, parent), LAMBDA t2 :
    Then(IF key < t2.nodes[parent].key THEN SetLeft(t2, parent, newNode)
         ELSE SetRight(t2, parent, newNode), LAMBDA t3 :
    Then(RBTree_balanceAfterInsertion(t3, newNode), LAMBDA t4 :
    [t |-> [t4 EXCEPT !.size = t4.size + 1], ret |-> "true"])))))

\* Mutant of RBTree::insert: no capacity check.
RBTree_insert_unchecked(t, key, value) == RBTree_insertNode(t, key, value)

\* RBTree::insert.
RBTree_insert(t, key, value) ==
    IF t.size >= t.capacity THEN [t |-> t, ret |-> "false"]
    ELSE RBTree_insertNode(t, key, value)

\* RBTree::erase.
RBTree_erase(t, key) ==
    LET node == findNode(t, key) IN
    IF node = Null THEN [t |-> t, ret |-> "false"]
    ELSE
    LET nodeRed == t.nodes[node].red
        oneChild == L(t, node) = Null \/ R(t, node) = Null
        \* at most one child
        childA == IF L(t, node) = Null THEN R(t, node) ELSE L(t, node)
        \* two children
        successor == minimum(t, R(t, node))
        childB == R(t, successor)
        originalColor == IF oneChild THEN nodeRed
                         ELSE IF successor = Null THEN FALSE ELSE t.nodes[successor].red
        child == IF oneChild THEN childA ELSE childB
    IN
    Then(IF oneChild THEN transplant(t, node, childA)
         ELSE Then(IF successor = Null THEN Fault(t)
                   ELSE IF P(t, successor) = node
                   THEN (IF childB # Null THEN SetParent(t, childB, successor) ELSE t)
                   ELSE Then(transplant(t, successor, R(t, successor)), LAMBDA u1 :
                        Then(SetRight(u1, successor, R(u1, node)), LAMBDA u2 :
                        SetParent(u2, R(u2, successor), successor))), LAMBDA b1 :
              Then(transplant(b1, node, successor), LAMBDA b2 :
              Then(SetLeft(b2, successor, L(b2, node)), LAMBDA b3 :
              Then(SetParent(b3, L(b3, successor), successor), LAMBDA b4 :
              IF b4.fault THEN b4 ELSE SetRed(b4, successor, b4.nodes[node].red))))),
         LAMBDA t1 :
    Then(RBTree_deallocateNode(t1, node), LAMBDA t2 :
    Then(IF ~t2.fault /\ ~originalColor /\ child # Null
         THEN RBTree_balanceAfterDeletion(t2, child) ELSE t2, LAMBDA t3 :
    [t |-> IF t3.fault THEN t3 ELSE [t3 EXCEPT !.size = t3.size - 1], ret |-> "true"])))

\* The loop of clear(): release every in-use slot in index order.
RECURSIVE RBTree_clearFrom(_, _)
RBTree_clearFrom(t, i) ==
    IF i > t.capacity THEN t
    ELSE RBTree_clearFrom(IF t.nodes[i].in_use THEN RBTree_deallocateNode(t, i) ELSE t, i + 1)

\* Mutant of RBTree::clear: root and size are reset, no node is released.
RBTree_clear_noRelease(t) ==
    [t EXCEPT !.root = Null, !.size = 0]

\* RBTree::clear.
RBTree_clear(t) ==
    [RBTree_clearFrom(t, 1) EXCEPT !.root = Null, !.size = 0]

----------------------------------------------------------------------------
(* AVL strategy (AVLTree).                                                  *)

\* Mutant of AVLTree::allocateNode: the right link, which chained the free
\* list, is not cleared.
AVLTree_allocateNode_keepRight(t) ==
    LET node == t.free IN
    [t EXCEPT !.free = t.nodes[node].right,
              !.nodes[node] = [@ EXCEPT !.left = Null, !.parent = Null,
                                        !.height = 1, !.in_use = TRUE]]

\* AVLTree::allocateNode: pop the free list; the node starts with height 1.
AVLTree_allocateNode(t) ==
    LET node == t.free IN
    [t EXCEPT !.free = t.nodes[node].right,
              !.nodes[node] = [@ EXCEPT !.right = Null, !.left = Null, !.parent = Null,
                                        !.height = 1, !.in_use = TRUE]]

\* Mutant of AVLTree::deallocateNode: the node is reset but never pushed.
AVLTree_deallocateNode_noPush(t, node) ==
    IF t.fault \/ node = Null THEN Fault(t)
    ELSE [t EXCEPT !.nodes[node] = [@ EXCEPT !.in_use = FALSE, !.height = 0,
                                             !.left = Null, !.parent = Null,
                                             !.right = t.free]]

\* AVLTree::deallocateNode: reset and push on the free list.
AVLTree_deallocateNode(t, node) ==
    IF t.fault \/ node = Null THEN Fault(t)
    ELSE [t EXCEPT !.nodes[node] = [@ EXCEPT !.in_use = FALSE, !.height = 0,
                                             !.left = Null, !.parent = Null,
                                             !.right = t.free],
                   !.free = node]

\* AVLTree::getHeight: the stored height, 0 for an absent or unused node.
getHeight(t, node) ==
    IF node # Null /\ t.nodes[node].in_use THEN t.nodes[node].height ELSE 0

\* AVLTree::balanceFactor.
balanceFactor(t, node) ==
    IF node # Null THEN getHeight(t, t.nodes[node].left) - getHeight(t, t.nodes[node].right)
    ELSE 0

Max(a, b) == IF a >= b THEN a ELSE b

\* AVLTree::updateHeight.
updateHeight(t, node) ==
    IF ~t.fault /\ node # Null /\ t.nodes[node].in_use
    THEN [t EXCEPT !.nodes[node].height =
                Max(getHeight(t, t.nodes[node].left), getHeight(t, t.nodes[node].right)) + 1]
    ELSE t

\* AVLTree::rotateLeft: the rewiring, then the heights of node and its new parent.
AVLTree_rotateLeft(t, node) ==
    LET rightChild == R(t, node) IN
    updateHeight(updateHeight(rotateLeft(t, node), node), rightChild)

\* AVLTree::rotateRight.
AVLTree_rotateRight(t, node) ==
    LET leftChild == L(t, node) IN
    updateHeight(updateHeight(rotateRight(t, node), node), leftChild)

\* Mutant of AVLTree::balance: heights are refreshed up to the root, nothing
\* is rotated.
RECURSIVE balance_noRotate(_, _)
balance_noRotate(t, node) ==
    IF t.fault \/ node = Null THEN t
    ELSE balance_noRotate(updateHeight(t, node), P(t, node))

\* AVLTree::balance: from node up to the root.
RECURSIVE balance(_, _)
balance(t, node) ==
    IF t.fault \/ node = Null THEN t
    ELSE
    Then(updateHeight(t, node), LAMBDA t1 :
    Then(balanceFactor(t1, node), LAMBDA bf :
    Then(IF bf > 1
         THEN AVLTree_rotateRight(
                  IF balanceFactor(t1, L(t1, node)) < 0
                  THEN AVLTree_rotateLeft(t1, L(t1, node)) ELSE t1,
                  node)
         ELSE IF bf < -1
         THEN AVLTree_rotateLeft(
                  IF balanceFactor(t1, R(t1, node)) > 0
                  THEN AVLTree_rotateRight(t1, R(t1, node)) ELSE t1,
                  node)
         ELSE t1, LAMBDA t2 :
    IF t2.fault THEN t2 ELSE balance(t2, t2.nodes[node].parent))))

\* AVLTree::insert.
AVLTree_insert(t, key, value) ==
    IF t.size >= t.capacity THEN [t |-> t, ret |-> "false"]
    ELSE IF t.free = Null THEN [t |-> t, ret |-> "out_of_range"]
    ELSE
    LET newNode == t.free IN
    Then([AVLTree_allocateNode(t) EXCEPT !.nodes[newNode].key = key,
                                         !.nodes[newNode].value = value], LAMBDA t1 :
    IF t1.root = Null
    THEN [t |-> [t1 EXCEPT !.root = newNode, !.size = t1.size + 1], ret |-> "true"]
    ELSE
    Then(descend(t1, t1.root, key), LAMBDA parent :
    IF parent = Null
    THEN [t |-> AVLTree_deallocateNode(t1, newNode), ret |-> "false"]
    ELSE
    Then(SetParent(t1, newNode, parent), LAMBDA t2 :
    Then(IF key < t2.nodes[parent].key THEN SetLeft(t2, parent, newNode)
         ELSE SetRight(t2, parent, newNode), LAMBDA t3 :
    Then(balance(t3, P(t3, newNode)), LAMBDA t4 :
    [t |-> [t4 EXCEPT !.size = t4.size + 1], ret |-> "true"])))))

\* AVLTree::erase.
AVLTree_erase(t, key) ==
    LET node == findNode(t, key) IN
    IF node = Null THEN [t |-> t, ret |-> "false"]
    ELSE
    LET noLeft  == ~InUse(t, L(t, node))
        noRight == ~InUse(t, R(t, node))
        \* two children
        successor == minimum(t, R(t, node))
        child == R(t, successor)
        parent == IF noLeft \/ noRight THEN P(t, node) ELSE P(t, successor)
    IN
    Then(IF noLeft THEN transplant(t, node, R(t, node))
         ELSE IF noRight THEN transplant(t, node, L(t, node))
         ELSE Then(IF P(t, successor) = node
                   THEN (IF child # Null THEN SetParent(t, child, successor) ELSE t)
                   ELSE Then(transplant(t, successor, R(t, successor)), LAMBDA u1 :
                        Then(SetRight(u1, successor, R(u1, node)), LAMBDA u2 :
                        SetParent(u2, R(u2, successor), successor))), LAMBDA b1 :
              Then(transplant(b1, node, successor), LAMBDA b2 :
              Then(SetLeft(b2, successor, L(b2, node)), LAMBDA b3 :
              SetParent(b3, L(b3, successor), successor)))), LAMBDA t1 :
    Then(AVLTree_deallocateNode(t1, node), LAMBDA t2 :
    Then(balance(t2, parent), LAMBDA t3 :
    [t |-> IF t3.fault THEN t3 ELSE [t3 EXCEPT !.size = t3.size - 1], ret |-> "true"])))

\* The loop of clear().
RECURSIVE AVLTree_clearFrom(_, _)
AVLTree_clearFrom(t, i) ==
    IF i > t.capacity THEN t
    ELSE AVLTree_clearFrom(IF t.nodes[i].in_use THEN AVLTree_deallocateNode(t, i) ELSE t, i + 1)

\* AVLTree::clear.
AVLTree_clear(t) ==
    [AVLTree_clearFrom(t, 1) EXCEPT !.root = Null, !.size = 0]

----------------------------------------------------------------------------
(* The tree contract as seen through the factory-made object.               *)

TreeTypes == {"RedBlack", "AVL"}

\* Mutant of insert: m_size is not counted up.
tree_insert_noCount(t, key, value) ==
    LET r == IF treeType = "RedBlack" THEN RBTree_insert(t, key, value)
             ELSE AVLTree_insert(t, key, value)
    IN  [r EXCEPT !.t.size = t.size]

tree_insert(t, key, value) ==
    IF treeType = "RedBlack" THEN RBTree_insert(t, key, value) ELSE AVLTree_insert(t, key, value)

\* Mutant of erase: with two children the successor's entry is copied into
\* the node of key and the successor's node is the one released.
tree_erase_byCopy(t, key) ==
    LET node == findNode(t, key)
        real(k) == IF treeType = "RedBlack" THEN RBTree_erase(t, k) ELSE AVLTree_erase(t, k)
    IN  IF node # Null /\ L(t, node) # Null /\ R(t, node) # Null
        THEN LET s == leftmost(t, R(t, node))
                 r == real(t.nodes[s].key)
             IN  [r EXCEPT !.t.nodes[node].key = t.nodes[s].key,
                           !.t.nodes[node].value = t.nodes[s].value]
        ELSE real(key)

tree_erase(t, key) ==
    IF treeType = "RedBlack" THEN RBTree_erase(t, key) ELSE AVLTree_erase(t, key)

tree_clear(t) ==
    IF treeType = "RedBlack" THEN RBTree_clear(t) ELSE AVLTree_clear(t)

\* find: the value stored for key, 0 (nullptr) when absent.
find(t, key) ==
    LET node == findNode(t, key) IN IF node = Null THEN 0 ELSE t.nodes[node].value

----------------------------------------------------------------------------
(* State machine.                                                           *)

\* A tree object fresh from its constructor.
EmptyTree(capacity) ==
    [nodes |-> [i \in 1..capacity |-> FreshNode(IF i < capacity THEN i + 1 ELSE Null)],
     root |-> Null, free |-> IF capacity = 0 THEN Null ELSE 1, size |-> 0,
     capacity |-> capacity, fault |-> FALSE]

\* A thread that is in no call of the map.
Idle == [op |-> "none", key |-> 0, value |-> 0, at |-> "idle", it |-> Null,
         snap |-> EmptyTree(0), i |-> 0]

\* The map around the tree: lock free, no thread inside; and a second, empty
\* map of the same capacity to merge from.
FixedMap_FixedMap ==
    /\ m_mutex = Unlocked
    /\ other = [t |-> EmptyTree(m_capacity), mutex |-> Unlocked]
    /\ pc = [th \in Threads |-> Idle]
    /\ task = "none"
    /\ visible = {}
    /\ retry = [key |-> 0, value |-> 0, stage |-> "none"]

\* The constructor: every slot free, chained 1 -> 2 -> ... -> Capacity.
Construct(capacity) ==
    /\ m_nodes = [i \in 1..capacity |-> FreshNode(IF i < capacity THEN i + 1 ELSE Null)]
    /\ m_root = Null
    /\ m_freeNodes = 1
    /\ m_size = 0
    /\ m_capacity = capacity
    /\ treeType \in TreeTypes
    /\ crashed = FALSE
    /\ last = [op |-> "none", key |-> 0, value |-> 0, ret |-> "none"]
    /\ FixedMap_FixedMap

\* The arena as the state keeps it. key and value of a slot that is not in use
\* are dead: findNode, minimum, next and prev test in_use before they read a
\* key, the descent of insert reads keys of linked nodes only, and allocateNode
\* is always followed by the assignment of key and value. The state keeps 0 there.
Scrub(nodes) ==
    [i \in DOMAIN nodes |->
        IF nodes[i].in_use THEN nodes[i] ELSE [nodes[i] EXCEPT !.key = 0, !.value = 0]]

\* Commit the outcome r of a call; a nullptr dereference ends the process with
\* the arena left as it was when the call began.
Commit(r, op, key, value) ==
    IF r.t.fault
    THEN /\ crashed' = TRUE
         /\ last' = [op |-> op, key |-> key, value |-> value, ret |-> "crash"]
         /\ UNCHANGED <<m_nodes, m_root, m_freeNodes, m_size, m_capacity, treeType>>
    ELSE /\ m_nodes' = Scrub(r.t.nodes)
         /\ m_root' = r.t.root
         /\ m_freeNodes' = r.t.free
         /\ m_size' = r.t.size
         /\ last' = [op |-> op, key |-> key, value |-> value, ret |-> r.ret]
         /\ UNCHANGED <<m_capacity, treeType, crashed>>

Insert(k, v) ==
    /\ ~crashed
    /\ Commit(tree_insert(Tree, k, v), "insert", k, v)
    /\ UNCHANGED mapVars

Erase(k) ==
    /\ ~crashed
    /\ Commit(tree_erase(Tree, k), "erase", k, 0)
    /\ UNCHANGED mapVars

Clear ==
    /\ ~crashed
    /\ Commit([t |-> tree_clear(Tree), ret |-> "void"], "clear", 0, 0)
    /\ UNCHANGED mapVars

Init == Construct(Capacity)

Next ==
    \/ \E k \in Keys, v \in Values : Insert(k, v)
    \/ \E k \in Keys : Erase(k)
    \/ Clear

\* A map of Capacity slots under every call with every key and value.
Spec == Init /\ [][Next]_vars

InitShape == Construct(ShapeCapacity)

NextShape ==
    \/ \E k \in ShapeKeys : Insert(k, 1)
    \/ \E k \in ShapeKeys : Erase(k)
    \/ Clear

\* A larger tree under the same calls with a single value: the tree shapes.
SpecShape == InitShape /\ [][NextShape]_vars

InitDeep == Construct(DeepCapacity)

NextDeep ==
    \/ \E k \in DeepKeys : Insert(k, 1)
    \/ \E k \in DeepKeys : Erase(k)
    \/ Clear

\* The same with one more slot and key: deep enough for the delete fix-up loop.
SpecDeep == InitDeep /\ [][NextDeep]_vars

InitGrow == Construct(GrowCapacity)

NextGrow == \E k \in GrowKeys : Insert(k, 1)

\* A tree that is only inserted into, every order of GrowCapacity keys.
SpecGrow == InitGrow /\ [][NextGrow]_vars

\* The initializer list the wide map is constructed from.
initList == <<[key |-> 1, value |-> 1], [key |-> 2, value |-> 1]>>

\* The loop of the initializer-list constructor from pair i on: insert each
\* pair in the order of the list.
RECURSIVE insertList(_, _, _)
insertList(t, list, i) ==
    IF i > Len(list) THEN t
    ELSE insertList(RBTree_insert(t, list[i].key, list[i].value).t, list, i + 1)

\* FixedMap(initList, capacity) with the default tree type, RedBlack.
ConstructList(list, capacity) ==
    LET cap == IF capacity # 0 THEN capacity ELSE Len(list)
        t   == insertList(EmptyTree(cap), list, 1)
    IN
    /\ m_nodes = Scrub(t.nodes)
    /\ m_root = t.root
    /\ m_freeNodes = t.free
    /\ m_size = t.size
    /\ m_capacity = cap
    /\ treeType = "RedBlack"
    /\ crashed = FALSE
    /\ last = [op |-> "none", key |-> 0, value |-> 0, ret |-> "none"]
    /\ FixedMap_FixedMap

InitWide == ConstructList(initList, WideCapacity)

NextWide == \E k \in WideKeys : Insert(k, 1)

\* A Red-Black map of WideCapacity slots built from an initializer list and
\* then only inserted into: room for a red great-grandparent.
SpecWide == InitWide /\ [][NextWide]_vars

----------------------------------------------------------------------------
(* FixedMap: the public operations around the tree. What an operation does  *)
(* between taking m_mutex and giving it back is an operator on the tree     *)
(* that yields [t, ret, value].                                             *)

\* Value(): the default-constructed value of operator[].
DefaultValue == 3

\* FixedMap::insert.
FixedMap_insert(t, key, value) ==
    Then(tree_insert(t, key, value), LAMBDA r :
    [t |-> r.t, ret |-> r.ret, value |-> value])

\* FixedMap::erase.
FixedMap_erase(t, key) ==
    Then(tree_erase(t, key), LAMBDA r :
    [t |-> r.t, ret |-> r.ret, value |-> 0])

\* FixedMap::find: a pointer to the stored value or nullptr.
FixedMap_find(t, key) ==
    [t |-> t, ret |-> IF find(t, key) = 0 THEN "nullptr" ELSE "found",
     value |-> find(t, key)]

\* FixedMap::clear.
FixedMap_clear(t) == [t |-> tree_clear(t), ret |-> "void", value |-> 0]

\* FixedMap::insert_or_assign.
FixedMap_insert_or_assign(t, key, value) ==
    LET found == findNode(t, key) IN
    IF found # Null
    THEN [t |-> [t EXCEPT !.nodes[found].value = value], ret |-> "false", value |-> value]
    ELSE FixedMap_insert(t, key, value)

\* extract that hands the pair back and leaves the entry in the tree.
FixedMap_extract_noErase(t, key) ==
    IF find(t, key) = 0 THEN [t |-> t, ret |-> "out_of_range", value |-> 0]
    ELSE [t |-> t, ret |-> "pair", value |-> find(t, key)]

\* FixedMap::extract: the pair {key, *found} is copied before the erase.
FixedMap_extract(t, key) ==
    LET found == find(t, key) IN
    IF found = 0 THEN [t |-> t, ret |-> "out_of_range", value |-> 0]
    ELSE Then(tree_erase(t, key), LAMBDA r :
         [t |-> r.t, ret |-> "pair", value |-> found])

\* FixedMap::operator[]: find, insert(key, Value()), find again. The second
\* find is dereferenced unchecked: when it is nullptr the reference is bound
\* to no object, and the process either dies on it or carries it on.
FixedMap_index(t, key) ==
    LET found == FixedMap_find(t, key) IN
    IF found.ret = "found" THEN {[t |-> t, ret |-> "reference", value |-> found.value]}
    ELSE Then(FixedMap_insert(t, key, DefaultValue), LAMBDA i :
         Then(FixedMap_find(i.t, key), LAMBDA again :
         IF again.ret = "found"
         THEN {[t |-> i.t, ret |-> "reference", value |-> again.value]}
         ELSE {[t |-> Fault(i.t), ret |-> "crash", value |-> 0],
               [t |-> i.t, ret |-> "null_reference", value |-> 0]}))

\* The loop of FixedMap::merge from iterator it of src: insert's answer is
\* dropped.
RECURSIVE mergeFrom(_, _, _)
mergeFrom(t, src, it) ==
    IF it = Null THEN t
    ELSE mergeFrom(FixedMap_insert(t, src.nodes[it].key, src.nodes[it].value).t,
                   src, next(src, it))

\* FixedMap::merge: for (it = other.begin(); it != other.end(); ++it).
FixedMap_merge(t, src) ==
    [t |-> mergeFrom(t, src, minimum(src, src.root)), ret |-> "void", value |-> 0]

\* size() and empty().
size(t) == t.size
empty(t) == t.size = 0

\* The history of the insert refused for lack of room: refused, then a
\* successful erase, then the same insert again.
Retry(op, key, value, ret) ==
    IF op = "insert" /\ ret = "false" /\ m_size = m_capacity /\ find(Tree, key) = 0
    THEN [key |-> key, value |-> value, stage |-> "refused"]
    ELSE IF op = "erase" /\ ret = "true" /\ retry.stage = "refused"
    THEN [retry EXCEPT !.stage = "erased"]
    ELSE IF op = "insert" /\ retry.stage = "erased" /\ key = retry.key /\ value = retry.value
    THEN [retry EXCEPT !.stage = "retried"]
    ELSE [key |-> 0, value |-> 0, stage |-> "none"]

\* A guard that never waits (ENABLE_THREAD_SAFETY false).
lock_guard_absent(mutex) == TRUE

\* std::lock_guard<std::mutex> lock(mutex) can be constructed.
lock_guard(mutex) == mutex = Unlocked

\* A whole call by the only thread there is, outcome r: the operation runs
\* under its guard, which gives m_mutex back on return and on throw.
Call(r, op, key) ==
    /\ ~crashed
    /\ Commit(r, op, key, r.value)
    /\ m_mutex' = Unlocked
    /\ retry' = Retry(op, key, r.value, IF r.t.fault THEN "crash" ELSE r.ret)
    /\ UNCHANGED <<other, pc, task, visible>>

MapInsert(k, v) ==
    /\ lock_guard(m_mutex)
    /\ Call(FixedMap_insert(Tree, k, v), "insert", k)

MapErase(k) ==
    /\ lock_guard(m_mutex)
    /\ Call(FixedMap_erase(Tree, k), "erase", k)

MapFind(k) ==
    /\ lock_guard(m_mutex)
    /\ Call(FixedMap_find(Tree, k), "find", k)

MapClear ==
    /\ lock_guard(m_mutex)
    /\ Call(FixedMap_clear(Tree), "clear", 0)

MapInsertOrAssign(k, v) ==
    /\ lock_guard(m_mutex)
    /\ Call(FixedMap_insert_or_assign(Tree, k, v), "insert_or_assign", k)

\* extract with m_mutex.lock() / m_mutex.unlock() in place of the guard: the
\* throw skips the unlock.
MapExtract_leak(k) ==
    /\ lock_guard(m_mutex)
    /\ ~crashed
    /\ Commit(FixedMap_extract(Tree, k), "extract", k, FixedMap_extract(Tree, k).value)
    /\ m_mutex' = IF FixedMap_extract(Tree, k).ret = "out_of_range" THEN 1 ELSE Unlocked
    /\ UNCHANGED <<other, pc, task, visible, retry>>

MapExtract(k) ==
    /\ lock_guard(m_mutex)
    /\ Call(FixedMap_extract(Tree, k), "extract", k)

\* operator[] holds no lock of its own: find and insert take it in turn.
MapIndex(k) ==
    /\ lock_guard(m_mutex)
    /\ \E r \in FixedMap_index(Tree, k) : Call(r, "index", k)

\* merge takes other's lock for the loop and this map's lock inside each insert.
MapMerge ==
    /\ lock_guard(other.mutex)
    /\ lock_guard(m_mutex)
    /\ Call(FixedMap_merge(Tree, other.t), "merge", 0)

\* other.insert(k, v): the same call on the second map.
OtherInsert(k, v) ==
    /\ ~crashed
    /\ lock_guard(other.mutex)
    /\ other' = [other EXCEPT !.t = FixedMap_insert(other.t, k, v).t]
    /\ last' = [op |-> "other.insert", key |-> k, value |-> v,
                ret |-> FixedMap_insert(other.t, k, v).ret]
    /\ UNCHANGED <<m_nodes, m_root, m_freeNodes, m_size, m_capacity, treeType, crashed>>
    /\ UNCHANGED <<m_mutex, pc, task, visible, retry>>

NextMap ==
    \/ \E k \in Keys, v \in Values : MapInsert(k, v)
    \/ \E k \in Keys : MapErase(k)
    \/ \E k \in Keys : MapFind(k)
    \/ MapClear
    \/ \E k \in Keys, v \in Values : MapInsertOrAssign(k, v)
    \/ \E k \in Keys : MapExtract(k)
    \/ \E k \in Keys : MapIndex(k)

\* One map of Capacity slots under every public call of a single thread.
SpecMap == Init /\ [][NextMap]_vars

NextMerge ==
    \/ \E k \in Keys : MapInsert(k, 1)
    \/ \E k \in Keys : OtherInsert(k, 2)
    \/ MapMerge

\* Two maps of Capacity slots, both filled by insert in every order, the
\* first with the first value and the second with the second value; the second
\* is merged into the first.
SpecMerge == Init /\ [][NextMerge]_vars

----------------------------------------------------------------------------
(* Threads. A call of a locked operation is two steps: Enter, where the     *)
(* guard takes m_mutex, and Leave, where the operation has run on the tree  *)
(* it found and the guard gives m_mutex back.                               *)

\* The operations that begin with std::lock_guard<std::mutex> lock(m_mutex).
LockedOps == {"insert", "erase", "find", "clear", "extract"}

\* What a locked operation does to the tree it found.
Body(t, op, key, value) ==
    CASE op = "insert" -> FixedMap_insert(t, key, value)
      [] op = "erase" -> FixedMap_erase(t, key)
      [] op = "find" -> FixedMap_find(t, key)
      [] op = "clear" -> FixedMap_clear(t)
      [] op = "extract" -> FixedMap_extract(t, key)

\* The history of inserts that returned true, after a call has returned.
Visible(op, key, value, ret) ==
    IF op = "insert" /\ ret = "true" THEN visible \cup {<<key, value>>}
    ELSE IF op \in {"erase", "extract"} THEN {e \in visible : e[1] # key}
    ELSE IF op = "clear" THEN {}
    ELSE visible

\* Thread th calls op(k, v): the guard's constructor returns with m_mutex held.
Enter(th, op, k, v) ==
    /\ ~crashed
    /\ pc[th].at = "idle"
    /\ lock_guard(m_mutex)
    /\ m_mutex' = th
    /\ pc' = [pc EXCEPT ![th] = [op |-> op, key |-> k, value |-> v, at |-> "body",
                                 it |-> Null, snap |-> Tree, i |-> pc[th].i]]
    /\ UNCHANGED <<treeVars, other, task, visible, retry>>

\* Thread th returns from the locked operation it is in.
Leave(th) ==
    /\ ~crashed
    /\ pc[th].at = "body" /\ pc[th].op \in LockedOps
    /\ \E r \in {Body(pc[th].snap, pc[th].op, pc[th].key, pc[th].value)} :
         /\ Commit(r, pc[th].op, pc[th].key, r.value)
         /\ visible' = IF r.t.fault THEN visible
                       ELSE Visible(pc[th].op, pc[th].key, pc[th].value, r.ret)
    /\ m_mutex' = Unlocked
    /\ pc' = [pc EXCEPT ![th] = [Idle EXCEPT !.i = IF task = "none" THEN 0 ELSE pc[th].i + 1]]
    /\ UNCHANGED <<other, task, retry>>

\* Thread th calls begin(): no guard.
EnterBegin(th) ==
    /\ ~crashed
    /\ pc[th].at = "idle"
    /\ pc' = [pc EXCEPT ![th] = [op |-> "begin", key |-> 0, value |-> 0, at |-> "body",
                                 it |-> Null, snap |-> Tree, i |-> pc[th].i]]
    /\ UNCHANGED <<treeVars, m_mutex, other, task, visible, retry>>

\* Some thread is inside an operation that writes the tree.
Writing == \E th \in Threads : pc[th].at = "body" /\ pc[th].op \in LockedOps \ {"find"}

\* Thread th returns from begin() with Iterator(m_tree->minimum(), ...). Read
\* while another thread writes the tree, m_root and the links are a data race:
\* the iterator is then any slot or nullptr.
LeaveBegin(th) ==
    /\ ~crashed
    /\ pc[th].at = "body" /\ pc[th].op = "begin"
    /\ \E node \in IF Writing THEN {Null} \cup (1..m_capacity) ELSE {minimum(Tree, m_root)} :
         last' = [op |-> "begin", key |-> IF InUse(Tree, node) THEN m_nodes[node].key ELSE 0,
                  value |-> 0, ret |-> IF node = Null THEN "end" ELSE "iterator"]
    /\ pc' = [pc EXCEPT ![th] = [Idle EXCEPT !.i = pc[th].i]]
    /\ UNCHANGED <<m_nodes, m_root, m_freeNodes, m_size, m_capacity, treeType, crashed>>
    /\ UNCHANGED <<m_mutex, other, task, visible, retry>>

\* Thread th calls merge(other): the guard takes other's lock, and the loop
\* starts at other.begin().
EnterMerge(th) ==
    /\ ~crashed
    /\ pc[th].at = "idle"
    /\ lock_guard(other.mutex)
    /\ other' = [other EXCEPT !.mutex = th]
    /\ pc' = [pc EXCEPT ![th] = [op |-> "merge", key |-> 0, value |-> 0, at |-> "loop",
                                 it |-> minimum(other.t, other.t.root),
                                 snap |-> EmptyTree(0), i |-> pc[th].i]]
    /\ UNCHANGED <<treeVars, m_mutex, task, visible, retry>>

\* The loop of merge calls this->insert(it->first, it->second): the guard of
\* insert takes m_mutex.
MergeEnterInsert(th) ==
    /\ ~crashed
    /\ pc[th].op = "merge" /\ pc[th].at = "loop" /\ pc[th].it # Null
    /\ lock_guard(m_mutex)
    /\ m_mutex' = th
    /\ pc' = [pc EXCEPT ![th].at = "body",
                        ![th].key = other.t.nodes[pc[th].it].key,
                        ![th].value = other.t.nodes[pc[th].it].value,
                        ![th].snap = Tree]
    /\ UNCHANGED <<treeVars, other, task, visible, retry>>

\* That insert returns into the loop, its answer dropped, and ++it.
MergeLeaveInsert(th) ==
    /\ ~crashed
    /\ pc[th].op = "merge" /\ pc[th].at = "body"
    /\ \E r \in {FixedMap_insert(pc[th].snap, pc[th].key, pc[th].value)} :
         /\ Commit(r, "insert", pc[th].key, r.value)
         /\ visible' = Visible("insert", pc[th].key, pc[th].value, r.ret)
    /\ m_mutex' = Unlocked
    /\ pc' = [pc EXCEPT ![th].at = "loop", ![th].key = 0, ![th].value = 0,
                        ![th].snap = EmptyTree(0),
                        ![th].it = next(other.t, pc[th].it)]
    /\ UNCHANGED <<other, task, retry>>

\* it == other.end(): merge returns and its guard gives other's lock back.
LeaveMerge(th) ==
    /\ ~crashed
    /\ pc[th].op = "merge" /\ pc[th].at = "loop" /\ pc[th].it = Null
    /\ other' = [other EXCEPT !.mutex = Unlocked]
    /\ last' = [op |-> "merge", key |-> 0, value |-> 0, ret |-> "void"]
    /\ pc' = [pc EXCEPT ![th] = [Idle EXCEPT !.i = pc[th].i]]
    /\ UNCHANGED <<m_nodes, m_root, m_freeNodes, m_size, m_capacity, treeType, crashed>>
    /\ UNCHANGED <<m_mutex, task, visible, retry>>

\* The map to merge from is filled before the threads start.
OtherSetup(k, v) ==
    /\ last.op \in {"none", "other.insert"}
    /\ \A th \in Threads : pc[th].at = "idle"
    /\ OtherInsert(k, v)

InitThreads == Construct(ThreadCapacity)

NextThreads ==
    \/ \E th \in Threads, op \in LockedOps \ {"clear"}, k \in ThreadKeys : Enter(th, op, k, 1)
    \/ \E th \in Threads : Enter(th, "clear", 0, 0)
    \/ \E th \in Threads : Leave(th)

\* ThreadCount threads that call the locked operations of one map in any order.
SpecThreads == InitThreads /\ [][NextThreads]_vars

NextLock ==
    \/ \E th \in Threads, op \in {"insert", "erase"}, k \in ThreadKeys : Enter(th, op, k, 1)
    \/ \E th \in Threads : Leave(th)
    \/ \E th \in Threads : EnterBegin(th)
    \/ \E th \in Threads : LeaveBegin(th)
    \/ \E k \in ThreadKeys : OtherSetup(k, 1)
    \/ \E th \in Threads : EnterMerge(th)
    \/ \E th \in Threads : MergeEnterInsert(th)
    \/ \E th \in Threads : MergeLeaveInsert(th)
    \/ \E th \in Threads : LeaveMerge(th)

\* ThreadCount threads that insert, erase, start an iteration and merge from a
\* map filled beforehand.
SpecLock == InitThreads /\ [][NextLock]_vars

----------------------------------------------------------------------------
(* operator[] beside other threads: its find, its insert and its second     *)
(* find each take and give back m_mutex on their own.                       *)

\* Thread th calls map[k]: find(key) under its guard. A key that is found is
\* returned at once.
IndexFind(th, k) ==
    /\ ~crashed
    /\ pc[th].at = "idle"
    /\ lock_guard(m_mutex)
    /\ IF FixedMap_find(Tree, k).ret = "found"
       THEN /\ last' = [op |-> "index", key |-> k, value |-> find(Tree, k),
                        ret |-> "reference"]
            /\ pc' = pc
       ELSE /\ last' = [op |-> "index.find", key |-> k, value |-> 0, ret |-> "nullptr"]
            /\ pc' = [pc EXCEPT ![th] = [Idle EXCEPT !.op = "index", !.key = k,
                                                     !.at = "insert"]]
    /\ UNCHANGED <<m_nodes, m_root, m_freeNodes, m_size, m_capacity, treeType, crashed>>
    /\ UNCHANGED <<m_mutex, other, task, visible, retry>>

\* insert(key, Value()) under its guard; the answer is dropped.
IndexInsert(th) ==
    /\ ~crashed
    /\ pc[th].op = "index" /\ pc[th].at = "insert"
    /\ lock_guard(m_mutex)
    /\ Commit(FixedMap_insert(Tree, pc[th].key, DefaultValue), "index.insert",
              pc[th].key, DefaultValue)
    /\ pc' = [pc EXCEPT ![th].at = "find"]
    /\ UNCHANGED <<m_mutex, other, task, visible, retry>>

\* return *find(key): the second find under its guard, dereferenced unchecked.
\* A nullptr gives a reference to no object: the process dies on it or
\* carries it on.
IndexFindAgain(th) ==
    /\ ~crashed
    /\ pc[th].op = "index" /\ pc[th].at = "find"
    /\ lock_guard(m_mutex)
    /\ \E ret \in IF FixedMap_find(Tree, pc[th].key).ret = "found"
                  THEN {"reference"} ELSE {"crash", "null_reference"} :
         /\ last' = [op |-> "index", key |-> pc[th].key,
                     value |-> find(Tree, pc[th].key), ret |-> ret]
         /\ crashed' = (ret = "crash")
    /\ pc' = [pc EXCEPT ![th] = Idle]
    /\ UNCHANGED <<m_nodes, m_root, m_freeNodes, m_size, m_capacity, treeType>>
    /\ UNCHANGED <<m_mutex, other, task, visible, retry>>

NextIndex ==
    \/ \E th \in Threads, op \in {"insert", "erase"}, k \in ThreadKeys : Enter(th, op, k, 1)
    \/ \E th \in Threads : Leave(th)
    \/ \E th \in Threads, k \in ThreadKeys : IndexFind(th, k)
    \/ \E th \in Threads : IndexInsert(th)
    \/ \E th \in Threads : IndexFindAgain(th)

\* ThreadCount threads that insert, erase and index one map.
SpecIndex == InitThreads /\ [][NextIndex]_vars

----------------------------------------------------------------------------
(* merge in both directions and into the map itself. The map of the state   *)
(* is a, the second map is b.                                               *)

\* Thread th calls b.merge(a): the guard of merge takes a's m_mutex.
EnterOtherMerge(th) ==
    /\ ~crashed
    /\ pc[th].at = "idle"
    /\ lock_guard(m_mutex)
    /\ m_mutex' = th
    /\ pc' = [pc EXCEPT ![th] = [op |-> "other.merge", key |-> 0, value |-> 0, at |-> "loop",
                                 it |-> minimum(Tree, m_root),
                                 snap |-> EmptyTree(0), i |-> pc[th].i]]
    /\ UNCHANGED <<treeVars, other, task, visible, retry>>

\* The loop of b.merge(a) calls b.insert: the guard of insert takes b's mutex.
OtherMergeEnterInsert(th) ==
    /\ ~crashed
    /\ pc[th].op = "other.merge" /\ pc[th].at = "loop" /\ pc[th].it # Null
    /\ lock_guard(other.mutex)
    /\ other' = [other EXCEPT !.mutex = th]
    /\ pc' = [pc EXCEPT ![th].at = "body",
                        ![th].key = m_nodes[pc[th].it].key,
                        ![th].value = m_nodes[pc[th].it].value]
    /\ UNCHANGED <<treeVars, m_mutex, task, visible, retry>>

\* That insert returns into the loop, and ++it.
OtherMergeLeaveInsert(th) ==
    /\ ~crashed
    /\ pc[th].op = "other.merge" /\ pc[th].at = "body"
    /\ other' = [t |-> FixedMap_insert(other.t, pc[th].key, pc[th].value).t,
                 mutex |-> Unlocked]
    /\ pc' = [pc EXCEPT ![th].at = "loop", ![th].key = 0, ![th].value = 0,
                        ![th].it = next(Tree, pc[th].it)]
    /\ UNCHANGED <<treeVars, m_mutex, task, visible, retry>>

\* it == a.end(): b.merge(a) returns and its guard gives a's m_mutex back.
LeaveOtherMerge(th) ==
    /\ ~crashed
    /\ pc[th].op = "other.merge" /\ pc[th].at = "loop" /\ pc[th].it = Null
    /\ m_mutex' = Unlocked
    /\ pc' = [pc EXCEPT ![th] = [Idle EXCEPT !.i = pc[th].i]]
    /\ last' = [op |-> "other.merge", key |-> 0, value |-> 0, ret |-> "void"]
    /\ UNCHANGED <<m_nodes, m_root, m_freeNodes, m_size, m_capacity, treeType, crashed>>
    /\ UNCHANGED <<other, task, visible, retry>>

\* Thread th calls a.merge(a): the guard of merge takes a's m_mutex.
EnterSelfMerge(th) ==
    /\ ~crashed
    /\ pc[th].at = "idle"
    /\ lock_guard(m_mutex)
    /\ m_mutex' = th
    /\ pc' = [pc EXCEPT ![th] = [op |-> "self.merge", key |-> 0, value |-> 0, at |-> "loop",
                                 it |-> minimum(Tree, m_root),
                                 snap |-> EmptyTree(0), i |-> pc[th].i]]
    /\ UNCHANGED <<treeVars, other, task, visible, retry>>

\* The loop of a.merge(a) calls a.insert: the guard of insert waits for the
\* m_mutex that its own thread holds. std::mutex is not recursive.
SelfMergeEnterInsert(th) ==
    /\ ~crashed
    /\ pc[th].op = "self.merge" /\ pc[th].at = "loop" /\ pc[th].it # Null
    /\ m_mutex = th
    /\ pc' = [pc EXCEPT ![th].at = "waiting",
                        ![th].key = m_nodes[pc[th].it].key,
                        ![th].value = m_nodes[pc[th].it].value]
    /\ UNCHANGED <<treeVars, m_mutex, other, task, visible, retry>>

\* a is empty: a.merge(a) returns at once.
LeaveSelfMerge(th) ==
    /\ ~crashed
    /\ pc[th].op = "self.merge" /\ pc[th].at = "loop" /\ pc[th].it = Null
    /\ m_mutex' = Unlocked
    /\ pc' = [pc EXCEPT ![th] = [Idle EXCEPT !.i = pc[th].i]]
    /\ last' = [op |-> "self.merge", key |-> 0, value |-> 0, ret |-> "void"]
    /\ UNCHANGED <<m_nodes, m_root, m_freeNodes, m_size, m_capacity, treeType, crashed>>
    /\ UNCHANGED <<other, task, visible, retry>>

\* What thread th does next inside the call it is in.
Proceed(th) ==
    \/ Leave(th)
    \/ MergeEnterInsert(th) \/ MergeLeaveInsert(th) \/ LeaveMerge(th)
    \/ OtherMergeEnterInsert(th) \/ OtherMergeLeaveInsert(th) \/ LeaveOtherMerge(th)
    \/ SelfMergeEnterInsert(th) \/ LeaveSelfMerge(th)

NextMerges ==
    \/ \E th \in Threads, k \in ThreadKeys : Enter(th, "insert", k, 1)
    \/ \E k \in ThreadKeys : OtherSetup(k, 1)
    \/ \E th \in Threads : EnterMerge(th)
    \/ \E th \in Threads : EnterOtherMerge(th)
    \/ \E th \in Threads : EnterSelfMerge(th)
    \/ \E th \in Threads : Proceed(th)

\* ThreadCount threads that insert into a and merge a and b into each other
\* and a into itself.
SpecMerges == InitThreads /\ [][NextMerges]_vars

\* The scheduler runs every thread that can go on, and a thread that finds a
\* mutex free again and again gets it.
FairMerges == \A th \in Threads : SF_vars(Proceed(th))

SpecMergesFair == SpecMerges /\ FairMerges

----------------------------------------------------------------------------
(* FixedMapTest.MultiThreads: every thread inserts its own range of keys in *)
(* ascending order; when all have been joined, every thread erases its own  *)
(* range in ascending order. The first thread has the long range.           *)

\* end - start of thread th.
numOperations(th) == IF th = 1 THEN LongTask ELSE ShortTask
\* start of thread th, keys counted from 1.
TaskStart(th) == IF th = 1 THEN 1 ELSE LongTask + (th - 2) * ShortTask + 1
\* The i-th key (from 0) of thread th: start + i.
TaskKey(th, i) == TaskStart(th) + i
TaskCapacity == LongTask + (ThreadCount - 1) * ShortTask
TaskKeys == 1..TaskCapacity

\* threads.emplace_back(insertTask, ...).
LaunchInsertTasks ==
    /\ ~crashed
    /\ task = "none"
    /\ task' = "insert"
    /\ UNCHANGED <<treeVars, m_mutex, other, pc, visible, retry>>

\* The loop of insertTask / eraseTask: the next call of thread th.
TaskCall(th) ==
    /\ task \in {"insert", "erase"}
    /\ pc[th].i < numOperations(th)
    /\ Enter(th, task, TaskKey(th, pc[th].i), 1)

\* Every thread is at the end of its loop.
Joined == \A th \in Threads : pc[th].at = "idle" /\ pc[th].i = numOperations(th)

\* join of the insertion threads, then threads.emplace_back(eraseTask, ...).
LaunchEraseTasks ==
    /\ ~crashed
    /\ task = "insert" /\ Joined
    /\ task' = "erase"
    /\ pc' = [th \in Threads |-> Idle]
    /\ UNCHANGED <<treeVars, m_mutex, other, visible, retry>>

\* join of the deletion threads.
JoinEraseTasks ==
    /\ ~crashed
    /\ task = "erase" /\ Joined
    /\ task' = "done"
    /\ pc' = [th \in Threads |-> Idle]
    /\ UNCHANGED <<treeVars, m_mutex, other, visible, retry>>

InitTasks == Construct(TaskCapacity)

NextTasks ==
    \/ LaunchInsertTasks
    \/ \E th \in Threads : TaskCall(th)
    \/ \E th \in Threads : Leave(th)
    \/ LaunchEraseTasks
    \/ JoinEraseTasks

\* The threads of FixedMapTest.MultiThreads under every interleaving.
SpecTasks == InitTasks /\ [][NextTasks]_vars

----------------------------------------------------------------------------
(* FixedMap::Iterator. The one caller keeps an iterator in pc[1].it: the    *)
(* slot of m_current, Null for end().                                       *)

\* operator* that tests in_use only and reads through nullptr as through the
\* first slot.
Iterator_deref_unchecked(t, it) ==
    IF it # Null /\ ~t.nodes[it].in_use
    THEN [ret |-> "runtime_error", key |-> 0, value |-> 0]
    ELSE [ret |-> "pair", key |-> t.nodes[IF it = Null THEN 1 ELSE it].key,
          value |-> t.nodes[IF it = Null THEN 1 ELSE it].value]

\* Iterator::operator*: the pair of a node in use, a throw for anything else.
Iterator_deref(t, it) ==
    IF it = Null \/ ~t.nodes[it].in_use
    THEN [ret |-> "runtime_error", key |-> 0, value |-> 0]
    ELSE [ret |-> "pair", key |-> t.nodes[it].key, value |-> t.nodes[it].value]

\* The caller's iterator becomes it; the call is recorded with the key it is at.
Iterate(op, it) ==
    /\ pc' = [pc EXCEPT ![1].it = it]
    /\ last' = [op |-> op, key |-> IF InUse(Tree, it) THEN m_nodes[it].key ELSE 0,
                value |-> 0, ret |-> IF it = Null THEN "end" ELSE "iterator"]
    /\ UNCHANGED <<m_nodes, m_root, m_freeNodes, m_size, m_capacity, treeType, crashed>>
    /\ UNCHANGED <<m_mutex, other, task, visible, retry>>

\* it = map.begin().
IteratorBegin ==
    /\ ~crashed
    /\ Iterate("begin", minimum(Tree, m_root))

\* it = map.end().
IteratorEnd ==
    /\ ~crashed
    /\ Iterate("end", Null)

\* ++it.
IteratorIncrement ==
    /\ ~crashed
    /\ Iterate("++", next(Tree, pc[1].it))

\* --it.
IteratorDecrement ==
    /\ ~crashed
    /\ Iterate("--", prev(Tree, pc[1].it))

\* *it.
IteratorDereference ==
    /\ ~crashed
    /\ last' = [op |-> "*", key |-> Iterator_deref(Tree, pc[1].it).key,
                value |-> Iterator_deref(Tree, pc[1].it).value,
                ret |-> Iterator_deref(Tree, pc[1].it).ret]
    /\ UNCHANGED <<m_nodes, m_root, m_freeNodes, m_size, m_capacity, treeType, crashed>>
    /\ UNCHANGED mapVars

NextIterator ==
    \/ \E k \in ShapeKeys : MapInsert(k, 1)
    \/ \E k \in ShapeKeys : MapErase(k)
    \/ IteratorBegin
    \/ IteratorEnd
    \/ IteratorIncrement
    \/ IteratorDecrement
    \/ IteratorDereference

\* A map of ShapeCapacity slots that is inserted into, erased from and walked
\* by one iterator.
SpecIterator == InitShape /\ [][NextIterator]_vars

----------------------------------------------------------------------------
(* BalancedTreeTest.MultiThreadedInsertErase: the same tasks, calling the   *)
(* tree object of the factory directly. The tree takes no lock.             *)

\* Thread th enters tree->insert / tree->erase with its next key and loads
\* m_freeNodes, the node allocateNode is about to hand out.
TreeEnter(th) ==
    /\ ~crashed
    /\ task \in {"insert", "erase"}
    /\ pc[th].at = "idle"
    /\ pc[th].i < numOperations(th)
    /\ pc' = [pc EXCEPT ![th] = [op |-> task, key |-> TaskKey(th, pc[th].i), value |-> 1,
                                 at |-> "body", it |-> m_freeNodes,
                                 snap |-> EmptyTree(0), i |-> pc[th].i]]
    /\ UNCHANGED <<treeVars, m_mutex, other, task, visible, retry>>

\* The rest of the call of thread th, on the tree as it is now: insert goes on
\* with the node it loaded, whether or not another thread has taken the same
\* node meanwhile.
TreeBody(th) ==
    IF pc[th].op = "insert"
    THEN tree_insert([Tree EXCEPT !.free = pc[th].it], pc[th].key, pc[th].value)
    ELSE tree_erase(Tree, pc[th].key)

\* Another thread took the node that thread th loaded: th's insert writes a
\* node that is linked in the tree.
Stale(th) == pc[th].op = "insert" /\ pc[th].it # m_freeNodes

\* Thread th returns from the call. After a call on a stale node the two
\* threads have written the same node without synchronisation; the model
\* keeps the tree that call left and follows the threads no further.
TreeLeave(th) ==
    /\ ~crashed
    /\ task \in {"insert", "erase"}
    /\ pc[th].at = "body" /\ pc[th].op \in {"insert", "erase"}
    /\ Commit(TreeBody(th), pc[th].op, pc[th].key, pc[th].value)
    /\ pc' = [pc EXCEPT ![th] = [Idle EXCEPT !.i = pc[th].i + 1]]
    /\ task' = IF Stale(th) THEN "raced" ELSE task
    /\ UNCHANGED <<m_mutex, other, visible, retry>>

NextRace ==
    \/ LaunchInsertTasks
    \/ \E th \in Threads : TreeEnter(th)
    \/ \E th \in Threads : TreeLeave(th)
    \/ LaunchEraseTasks
    \/ JoinEraseTasks

\* The threads of BalancedTreeTest.MultiThreadedInsertErase under every
\* interleaving of their calls.
SpecRace == InitTasks /\ [][NextRace]_vars

----------------------------------------------------------------------------
(* The arena functions on their own: what allocateNode and deallocateNode   *)
(* make of the tree of a state. The outcome is kept in the snapshot of      *)
(* thread 1 and the slot in its iterator; the tree itself stays as it is.   *)

tree_allocateNode(t) ==
    IF treeType = "RedBlack" THEN RBTree_allocateNode(t) ELSE AVLTree_allocateNode(t)

tree_deallocateNode(t, node) ==
    IF treeType = "RedBlack" THEN RBTree_deallocateNode(t, node)
    ELSE AVLTree_deallocateNode(t, node)

\* The outcome t of an arena function on slot node.
Hand(op, t, node) ==
    /\ pc' = [pc EXCEPT ![1].snap = t, ![1].it = node]
    /\ last' = [op |-> op, key |-> 0, value |-> 0, ret |-> "node"]
    /\ UNCHANGED <<m_nodes, m_root, m_freeNodes, m_size, m_capacity, treeType, crashed>>
    /\ UNCHANGED <<m_mutex, other, task, visible, retry>>

\* allocateNode() with a free node left (insert calls it only then).
AllocateNode ==
    /\ ~crashed
    /\ m_freeNodes # Null
    /\ Hand("allocateNode", tree_allocateNode(Tree), m_freeNodes)

\* deallocateNode(node) of a node in use.
DeallocateNode(node) ==
    /\ ~crashed
    /\ m_nodes[node].in_use
    /\ Hand("deallocateNode", tree_deallocateNode(Tree, node), node)

\* A call of the map; the outcome of an earlier arena function is dropped.
ArenaCall(r, op, key, value) ==
    /\ Commit(r, op, key, value)
    /\ pc' = [th \in Threads |-> Idle]
    /\ UNCHANGED <<m_mutex, other, task, visible, retry>>

ArenaInsert(k, v) ==
    /\ ~crashed
    /\ ArenaCall(tree_insert(Tree, k, v), "insert", k, v)

ArenaErase(k) ==
    /\ ~crashed
    /\ ArenaCall(tree_erase(Tree, k), "erase", k, 0)

ArenaClear ==
    /\ ~crashed
    /\ ArenaCall([t |-> tree_clear(Tree), ret |-> "void"], "clear", 0, 0)

NextArena ==
    \/ \E k \in ShapeKeys : ArenaInsert(k, 1)
    \/ \E k \in ShapeKeys : ArenaErase(k)
    \/ ArenaClear
    \/ AllocateNode
    \/ \E node \in 1..ShapeCapacity : DeallocateNode(node)

\* The trees of SpecShape, with the arena functions applied in every state.
SpecArena == InitShape /\ [][NextArena]_vars

----------------------------------------------------------------------------
(* The two strategies side by side: the tree of the state is an RBTree, the *)
(* tree in other is an AVLTree of the same capacity, and every call goes to *)
(* both.                                                                    *)

\* The AVLTree after a call that left it as t.
Beside(t) == [other EXCEPT !.t = [t EXCEPT !.nodes = Scrub(t.nodes)]]

BothInsert(k, v) ==
    /\ ~crashed
    /\ Commit(RBTree_insert(Tree, k, v), "insert", k, v)
    /\ other' = Beside(AVLTree_insert(other.t, k, v).t)
    /\ UNCHANGED <<m_mutex, pc, task, visible, retry>>

BothErase(k) ==
    /\ ~crashed
    /\ Commit(RBTree_erase(Tree, k), "erase", k, 0)
    /\ other' = Beside(AVLTree_erase(other.t, k).t)
    /\ UNCHANGED <<m_mutex, pc, task, visible, retry>>

BothClear ==
    /\ ~crashed
    /\ Commit([t |-> RBTree_clear(Tree), ret |-> "void"], "clear", 0, 0)
    /\ other' = Beside(AVLTree_clear(other.t))
    /\ UNCHANGED <<m_mutex, pc, task, visible, retry>>

\* The keys the paired run erases: all but the smallest and the largest.
InnerKeys == DeepKeys \ {1, DeepCapacity}

InitBoth ==
    /\ Construct(DeepCapacity)
    /\ treeType = "RedBlack"

NextBoth ==
    \/ \E k \in DeepKeys : BothInsert(k, 1)
    \/ \E k \in InnerKeys : BothErase(k)
    \/ BothClear

\* An RBTree and an AVLTree of DeepCapacity slots under the same calls.
SpecBoth == InitBoth /\ [][NextBoth]_vars

----------------------------------------------------------------------------
(* FixedUnorderedMap with separate chaining. The state keeps its storage   *)
(* in the arena variables: m_nodes[1..m_capacity] are m_buckets (m_capacity *)
(* is m_mapCapacity), the slots behind them are m_bucketPool, m_freeNodes   *)
(* is m_freeBuckets and treeType is m_probingStrategy.                      *)

\* struct Bucket.
Bucket(nextFree) == [key |-> 0, value |-> 0, occupied |-> FALSE, next |-> nextFree]

\* The unordered map the member functions work on.
Unordered == [buckets |-> m_nodes, free |-> m_freeNodes, size |-> m_size,
              capacity |-> m_capacity]

\* getBucketIndex: the slot of &m_buckets[m_hasher(key) % m_mapCapacity];
\* std::hash of an integer key is the key.
getBucketIndex(u, key) == (key % u.capacity) + 1

\* returnBucket.
returnBucket(u, bucket) ==
    [u EXCEPT !.buckets[bucket].occupied = FALSE, !.buckets[bucket].next = u.free,
              !.free = bucket]

\* The while loop of insert: the chained bucket that holds key, or the last
\* bucket of the chain.
RECURSIVE chainEnd(_, _, _)
chainEnd(u, bucket, key) ==
    IF u.buckets[bucket].next = Null THEN [found |-> FALSE, bucket |-> bucket]
    ELSE IF u.buckets[u.buckets[bucket].next].key = key
         THEN [found |-> TRUE, bucket |-> u.buckets[bucket].next]
         ELSE chainEnd(u, u.buckets[bucket].next, key)

\* FixedUnorderedMap::insert below its guard; getFreeBucket throws
\* out_of_range on an empty pool.
FixedUnorderedMap_insert(u, key, value) ==
    LET bucket == getBucketIndex(u, key) IN
    IF ~u.buckets[bucket].occupied
    THEN [u |-> [u EXCEPT !.buckets[bucket].key = key, !.buckets[bucket].value = value,
                          !.buckets[bucket].occupied = TRUE, !.size = @ + 1],
          ret |-> "true", value |-> value]
    ELSE IF u.buckets[bucket].key = key THEN [u |-> u, ret |-> "false", value |-> value]
    ELSE Then(chainEnd(u, bucket, key), LAMBDA end :
         IF end.found THEN [u |-> u, ret |-> "false", value |-> value]
         ELSE IF u.free = Null THEN [u |-> u, ret |-> "out_of_range", value |-> value]
         ELSE [u |-> [u EXCEPT !.free = u.buckets[u.free].next,
                               !.buckets[u.free] = [key |-> key, value |-> value,
                                                    occupied |-> TRUE, next |-> Null],
                               !.buckets[end.bucket].next = u.free,
                               !.size = @ + 1],
               ret |-> "true", value |-> value])

\* The while loop of erase.
RECURSIVE eraseFrom(_, _, _, _)
eraseFrom(u, bucket, prevBucket, key) ==
    IF bucket = Null THEN [u |-> u, ret |-> "false", value |-> 0]
    ELSE IF u.buckets[bucket].occupied /\ u.buckets[bucket].key = key
    THEN [u |-> [ (IF prevBucket # Null
                   THEN returnBucket([u EXCEPT !.buckets[prevBucket].next = u.buckets[bucket].next],
                                     bucket)
                   ELSE IF u.buckets[bucket].next # Null
                   THEN returnBucket([u EXCEPT !.buckets[bucket] = u.buckets[u.buckets[bucket].next]],
                                     u.buckets[bucket].next)
                   ELSE [u EXCEPT !.buckets[bucket].occupied = FALSE])
                  EXCEPT !.size = @ - 1 ],
          ret |-> "true", value |-> 0]
    ELSE eraseFrom(u, u.buckets[bucket].next, bucket, key)

\* FixedUnorderedMap::erase below its guard.
FixedUnorderedMap_erase(u, key) == eraseFrom(u, getBucketIndex(u, key), Null, key)

\* The while loop of find: the value stored for key, 0 (nullptr) when absent.
RECURSIVE chainFind(_, _, _)
chainFind(u, bucket, key) ==
    IF bucket = Null THEN 0
    ELSE IF u.buckets[bucket].occupied /\ u.buckets[bucket].key = key
    THEN u.buckets[bucket].value
    ELSE chainFind(u, u.buckets[bucket].next, key)

\* FixedUnorderedMap::find below its guard.
FixedUnorderedMap_find(u, key) ==
    [u |-> u, ret |-> IF chainFind(u, getBucketIndex(u, key), key) = 0
                      THEN "nullptr" ELSE "found",
     value |-> chainFind(u, getBucketIndex(u, key), key)]

\* FixedUnorderedMap::operator[] below its guards: find, insert of Value(),
\* find again.
FixedUnorderedMap_index(u, key) ==
    IF FixedUnorderedMap_find(u, key).ret = "found"
    THEN [u |-> u, ret |-> "reference", value |-> FixedUnorderedMap_find(u, key).value]
    ELSE Then(FixedUnorderedMap_insert(u, key, DefaultValue), LAMBDA r :
         IF r.ret = "out_of_range" THEN r
         ELSE [u |-> r.u, ret |-> "reference",
               value |-> FixedUnorderedMap_find(r.u, key).value])

\* key and value of a bucket that is not occupied are dead: every read of
\* them follows a test of occupied or a walk along a chain.
ScrubBuckets(buckets) ==
    [i \in DOMAIN buckets |->
        IF buckets[i].occupied THEN buckets[i]
        ELSE [buckets[i] EXCEPT !.key = 0, !.value = 0]]

\* The constructor and initFreeBucketPool: every primary bucket empty, the
\* pool chained in order.
FixedUnorderedMap_FixedUnorderedMap(mapCapacity, poolCapacity) ==
    /\ m_nodes = [i \in 1..(mapCapacity + poolCapacity) |->
                     Bucket(IF i > mapCapacity /\ i < mapCapacity + poolCapacity
                            THEN i + 1 ELSE Null)]
    /\ m_root = Null
    /\ m_freeNodes = mapCapacity + 1
    /\ m_size = 0
    /\ m_capacity = mapCapacity
    /\ treeType = "CHAINING"
    /\ crashed = FALSE
    /\ last = [op |-> "none", key |-> 0, value |-> 0, ret |-> "none"]
    /\ m_mutex = Unlocked
    /\ other = [t |-> EmptyTree(0), mutex |-> Unlocked]
    /\ pc = [th \in Threads |-> Idle]
    /\ task = "none"
    /\ visible = {}
    /\ retry = [key |-> 0, value |-> 0, stage |-> "none"]

\* The outcome r of a call is stored and recorded.
UnorderedCommit(r, op, key) ==
    /\ m_nodes' = ScrubBuckets(r.u.buckets)
    /\ m_freeNodes' = r.u.free
    /\ m_size' = r.u.size
    /\ last' = [op |-> op, key |-> key, value |-> r.value, ret |-> r.ret]
    /\ UNCHANGED <<m_root, m_capacity, treeType, crashed>>

\* insert, erase and find take m_mutex once and give it back on return and
\* on throw.
UnorderedInsert(k, v) ==
    /\ lock_guard(m_mutex)
    /\ UnorderedCommit(FixedUnorderedMap_insert(Unordered, k, v), "insert", k)
    /\ UNCHANGED mapVars

UnorderedErase(k) ==
    /\ lock_guard(m_mutex)
    /\ UnorderedCommit(FixedUnorderedMap_erase(Unordered, k), "erase", k)
    /\ UNCHANGED mapVars

UnorderedFind(k) ==
    /\ lock_guard(m_mutex)
    /\ UnorderedCommit(FixedUnorderedMap_find(Unordered, k), "find", k)
    /\ UNCHANGED mapVars

\* Thread th calls map[k]: the guard of operator[] takes m_mutex; the next
\* statement is find(key).
UnorderedIndexLock(th, k) ==
    /\ pc[th].at = "idle"
    /\ lock_guard(m_mutex)
    /\ m_mutex' = th
    /\ pc' = [pc EXCEPT ![th] = [Idle EXCEPT !.op = "index", !.key = k, !.at = "find"]]
    /\ UNCHANGED <<treeVars, other, task, visible, retry>>

\* What std::mutex::lock may do when the calling thread owns the mutex
\* (undefined behaviour): block for ever, throw std::system_error
\* (resource_deadlock_would_occur), or go on as if the mutex were recursive.
RelockOutcomes == {"blocks", "system_error", "relocks"}

\* find(key) inside operator[]: its guard locks the m_mutex that th holds.
UnorderedIndexFind(th, outcome) ==
    /\ pc[th].op = "index" /\ pc[th].at = "find"
    /\ m_mutex = th
    /\ CASE outcome = "blocks" ->
              /\ pc' = [pc EXCEPT ![th].at = "waiting"]
              /\ UNCHANGED <<treeVars, m_mutex>>
         [] outcome = "system_error" ->
              /\ pc' = [pc EXCEPT ![th] = Idle]
              /\ m_mutex' = Unlocked
              /\ last' = [op |-> "index", key |-> pc[th].key, value |-> 0,
                          ret |-> "system_error"]
              /\ UNCHANGED <<m_nodes, m_root, m_freeNodes, m_size, m_capacity,
                             treeType, crashed>>
         [] outcome = "relocks" ->
              /\ pc' = [pc EXCEPT ![th] = Idle]
              /\ m_mutex' = Unlocked
              /\ UnorderedCommit(FixedUnorderedMap_index(Unordered, pc[th].key),
                                 "index", pc[th].key)
    /\ UNCHANGED <<other, task, visible, retry>>

InitUnordered == FixedUnorderedMap_FixedUnorderedMap(BucketCount, BucketPoolSize)

NextUnordered ==
    \/ \E k \in HashKeys : UnorderedInsert(k, 1)
    \/ \E k \in HashKeys : UnorderedErase(k)
    \/ \E k \in HashKeys : UnorderedFind(k)
    \/ \E th \in Threads, k \in HashKeys : UnorderedIndexLock(th, k)
    \/ \E th \in Threads, outcome \in RelockOutcomes : UnorderedIndexFind(th, outcome)

\* An unordered map of BucketCount buckets and BucketPoolSize chained buckets
\* that ThreadCount threads insert into, erase from, look up and index.
SpecUnordered == InitUnordered /\ [][NextUnordered]_vars

----------------------------------------------------------------------------
(* Observations on a state.                                                 *)

Slots == 1..m_capacity
Occupied == {i \in Slots : m_nodes[i].in_use}
IsRB == treeType = "RedBlack"
IsAVL == treeType = "AVL"
\* The tree after the step.
TreeNext == [nodes |-> m_nodes', root |-> m_root', free |-> m_freeNodes', size |-> m_size',
             capacity |-> m_capacity', fault |-> FALSE]
\* key is stored in an occupied slot.
HasKey(key) == \E i \in Occupied : m_nodes[i].key = key

\* The last call was an insert or an erase and it returned.
Completed == last.op \in {"insert", "erase"} /\ last.ret \in {"true", "false"}

\* The nodes visited from minimum() by repeated next(), at most fuel of them.
RECURSIVE walk(_, _, _)
walk(t, node, fuel) ==
    IF node = Null \/ fuel = 0 THEN <<>>
    ELSE <<node>> \o walk(t, next(t, node), fuel - 1)

InOrder == walk(Tree, minimum(Tree, m_root), m_capacity + 1)

\* The free list from its head, at most fuel slots.
RECURSIVE freeChain(_, _, _)
freeChain(t, node, fuel) ==
    IF node = Null \/ fuel = 0 THEN <<>>
    ELSE <<node>> \o freeChain(t, t.nodes[node].right, fuel - 1)

FreeList(t) == freeChain(t, t.free, t.capacity + 1)

\* True height of the subtree at node (0 for an absent child).
RECURSIVE trueHeight(_)
trueHeight(node) ==
    IF node = Null THEN 0
    ELSE 1 + Max(trueHeight(m_nodes[node].left), trueHeight(m_nodes[node].right))

storedHeight(node) == IF node = Null THEN 0 ELSE m_nodes[node].height

\* Black nodes on every path from node down to an absent child, -1 when two
\* paths disagree.
RECURSIVE blackHeight(_)
blackHeight(node) ==
    IF node = Null THEN 0
    ELSE LET l == blackHeight(m_nodes[node].left)
             r == blackHeight(m_nodes[node].right)
         IN  IF l = -1 \/ r = -1 \/ l # r THEN -1
             ELSE l + (IF m_nodes[node].red THEN 0 ELSE 1)

IsRed(node) == node # Null /\ m_nodes[node].red

Abs(n) == IF n < 0 THEN -n ELSE n

----------------------------------------------------------------------------
(* Claims.                                                                  *)

\* C1: after any sequence of insert, erase and clear (either strategy), the
\* walk from minimum() by repeated next() visits strictly increasing keys and
\* exactly size() entries before it reaches the end.
C1_InOrderTraversal ==
    LET w == InOrder
    IN  /\ Len(w) = m_size
        /\ \A i \in 1..(Len(w) - 1) : m_nodes[w[i]].key < m_nodes[w[i + 1]].key

\* A tree of three entries left by an erase, whose walk has to climb out of a
\* right subtree.
C1_Witness ==
    /\ last.op = "erase" /\ last.ret = "true" /\ m_size = 3
    /\ Len(InOrder) = 3
    /\ \E i \in 1..2 : /\ m_nodes[InOrder[i]].right = Null
                       /\ m_nodes[InOrder[i]].parent # InOrder[i + 1]

\* C2: size() never exceeds the capacity; with size() = capacity an insert of
\* an absent key returns false, leaves size() at the capacity and the key absent.
C2_CapacityNeverExceeded ==
    [][ /\ m_size' <= m_capacity'
        /\ (last'.op = "insert" /\ m_size = m_capacity /\ ~HasKey(last'.key))
              => /\ last'.ret = "false"
                 /\ m_size' = m_capacity
                 /\ find(TreeNext, last'.key) = 0 ]_vars

\* A full map that has just refused an absent key.
C2_Witness ==
    /\ last.op = "insert" /\ last.ret = "false"
    /\ m_size = m_capacity /\ ~HasKey(last.key)

\* C3: AVL, after every completed insert and erase: the true heights of the
\* two subtrees of every occupied node differ by at most 1.
C3_AVLBalanced ==
    (IsAVL /\ Completed) =>
        \A i \in Occupied :
            Abs(trueHeight(m_nodes[i].left) - trueHeight(m_nodes[i].right)) <= 1

\* C4: Red-Black, after every completed insert and erase: no red node has a
\* red child.
C4_NoRedRed ==
    (IsRB /\ Completed) =>
        \A i \in Occupied :
            m_nodes[i].red => ~IsRed(m_nodes[i].left) /\ ~IsRed(m_nodes[i].right)

\* C5: Red-Black, after every completed insert and erase: every path from the
\* root to an absent child holds the same number of black nodes.
C5_EqualBlackHeight ==
    (IsRB /\ Completed) => blackHeight(m_root) # -1

\* C6: Red-Black, after every completed insert and erase that leaves the tree
\* non-empty: the root is black.
C6_RootBlack ==
    (IsRB /\ Completed /\ m_root # Null) => ~m_nodes[m_root].red

\* Keys 1, 2, 3 with 2 just erased: 1 and 3 remain under a black root.
C6_Witness ==
    /\ IsRB /\ last.op = "erase" /\ last.key = 2 /\ last.ret = "true"
    /\ m_size = 2 /\ HasKey(1) /\ HasKey(3) /\ find(Tree, 2) = 0
    /\ ~m_nodes[m_root].red

\* C7: AVL, after every completed insert and erase: the height stored in every
\* occupied node is 1 + the larger stored height of its children (absent = 0).
C7_StoredHeights ==
    (IsAVL /\ Completed) =>
        \A i \in Occupied :
            m_nodes[i].height =
                1 + Max(storedHeight(m_nodes[i].left), storedHeight(m_nodes[i].right))

\* C8: insert(k, v2) with k present returns false and changes nothing: the
\* value of k, size(), the entries, the shape, and the free list (the node taken
\* for the attempt is back at its head).
C8_DuplicateInsert ==
    [][ (last'.op = "insert" /\ HasKey(last'.key))
          => /\ last'.ret = "false"
             /\ find(TreeNext, last'.key) = find(Tree, last'.key)
             /\ m_size' = m_size
             /\ m_nodes' = m_nodes
             /\ m_root' = m_root
             /\ m_freeNodes' = m_freeNodes
             /\ FreeList(TreeNext) = FreeList(Tree) ]_vars

\* A refused insert of a present key with another value, the map not full.
C8_Witness ==
    /\ last.op = "insert" /\ last.ret = "false"
    /\ HasKey(last.key) /\ find(Tree, last.key) # last.value
    /\ m_size < m_capacity

\* C9: erase(k) of a present key returns true, lowers size() by one, makes
\* find(k) absent and keeps every other key with its value.
C9_ErasePresent ==
    [][ (last'.op = "erase" /\ HasKey(last'.key))
          => /\ last'.ret = "true"
             /\ m_size' = m_size - 1
             /\ find(TreeNext, last'.key) = 0
             /\ \A k \in DeepKeys \ {last'.key} : find(TreeNext, k) = find(Tree, k) ]_vars

\* C10: erase(k) of an absent key returns false and changes nothing: size(),
\* the entries and the free list.
C10_EraseAbsent ==
    [][ (last'.op = "erase" /\ ~HasKey(last'.key))
          => /\ last'.ret = "false"
             /\ m_size' = m_size
             /\ m_nodes' = m_nodes
             /\ m_root' = m_root
             /\ FreeList(TreeNext) = FreeList(Tree) ]_vars

\* A refused erase on a map that holds other keys and has released a slot before.
C10_Witness ==
    /\ last.op = "erase" /\ last.ret = "false" /\ ~HasKey(last.key)
    /\ m_size >= 1 /\ m_freeNodes # Null /\ m_freeNodes # m_size + 1

\* C11: round trip. When insert(k, v) has returned true and the next call is
\* extract(k), it returns the pair (k, v), find(k) is absent afterwards, and
\* every other key is found with the value it had.
C11_InsertExtractRoundTrip ==
    [][ (/\ last.op = "insert" /\ last.ret = "true"
         /\ last'.op = "extract" /\ last'.key = last.key)
           => /\ last'.ret = "pair"
              /\ last'.value = last.value
              /\ find(TreeNext, last.key) = 0
              /\ m_size' = m_size - 1
              /\ \A j \in Keys \ {last.key} : find(TreeNext, j) = find(Tree, j) ]_vars

\* extract has just handed back the second value from a map that keeps two
\* other entries.
C11_Witness ==
    /\ last.op = "extract" /\ last.ret = "pair" /\ last.value = 2
    /\ m_size = 2
    /\ find(Tree, last.key) = 0

\* C12: extract(k) of an absent key throws out_of_range, leaves the arena, the
\* root, the free list and the size as they were, and leaves m_mutex free, so
\* that the guard of the next call can take it.
C12_ExtractAbsentThrows ==
    [][ (last'.op = "extract" /\ find(Tree, last'.key) = 0)
           => /\ last'.ret = "out_of_range"
              /\ <<m_nodes', m_root', m_freeNodes', m_size'>>
                   = <<m_nodes, m_root, m_freeNodes, m_size>>
              /\ ~crashed'
              /\ lock_guard(m_mutex') ]_vars

\* extract has just thrown on a map that holds two entries, and the lock is free.
C12_Witness ==
    /\ last.op = "extract" /\ last.ret = "out_of_range"
    /\ m_size = 2 /\ find(Tree, last.key) = 0
    /\ lock_guard(m_mutex)

\* C13: insert_or_assign(k, v) returns true exactly when k was absent (and is
\* now inserted), false exactly when k was present (and is now overwritten),
\* and find(k) yields v after either.
C13_InsertOrAssign ==
    [][ last'.op = "insert_or_assign"
           => /\ (last'.ret = "true") <=> (find(Tree, last'.key) = 0)
              /\ (last'.ret = "false") <=> (find(Tree, last'.key) # 0)
              /\ find(TreeNext, last'.key) = last'.value ]_vars

\* insert_or_assign has answered false for a key the full map does not hold.
C13_Witness ==
    /\ last.op = "insert_or_assign" /\ last.ret = "false"
    /\ m_size = m_capacity /\ find(Tree, last.key) = 0

\* C14: map[k] of a present key returns the stored value and leaves the tree
\* as it was; map[k] of an absent key returns the entry (k, default value)
\* that it created, and find(k) is present afterwards.
C14_IndexedAccess ==
    [][ last'.op = "index"
           => /\ last'.ret = "reference"
              /\ find(Tree, last'.key) # 0
                   => /\ last'.value = find(Tree, last'.key)
                      /\ <<m_nodes', m_root', m_freeNodes', m_size'>>
                           = <<m_nodes, m_root, m_freeNodes, m_size>>
              /\ find(Tree, last'.key) = 0
                   => /\ last'.value = DefaultValue
                      /\ find(TreeNext, last'.key) = DefaultValue
                      /\ m_size' = m_size + 1 ]_vars

\* map[k] has handed back a reference to no entry: the map is full and k is
\* not in it.
C14_Witness ==
    /\ last.op = "index" /\ last.ret = "null_reference"
    /\ m_size = m_capacity /\ find(Tree, last.key) = 0

\* C15: after merge(other) every key that was in this map keeps the value it
\* had, every key that was only in other is in this map with other's value,
\* and other is as it was.
C15_Merge ==
    [][ last'.op = "merge"
           => /\ \A k \in Keys :
                    /\ find(Tree, k) # 0 => find(TreeNext, k) = find(Tree, k)
                    /\ (find(Tree, k) = 0 /\ find(other.t, k) # 0)
                          => find(TreeNext, k) = find(other.t, k)
              /\ other' = other ]_vars

\* merge has returned and a key of other is still missing from this map.
C15_Witness ==
    /\ last.op = "merge" /\ last.ret = "void"
    /\ \E k \in Keys : find(other.t, k) # 0 /\ find(Tree, k) = 0

\* C16: a thread that is inside a public operation, about to read or write
\* the tree, holds m_mutex; a thread that is inside merge holds the lock of
\* the map it merges into from the first insertion to the last.
C16_LockHeld ==
    \A th \in Threads :
        /\ pc[th].at = "body" => m_mutex = th
        /\ pc[th].op = "merge" => m_mutex = th

\* One thread is inside begin() while the other is inside insert and holds
\* the lock.
C16_Witness ==
    \E th \in Threads, writer \in Threads :
        /\ pc[th].op = "begin" /\ pc[th].at = "body"
        /\ pc[writer].op = "insert" /\ pc[writer].at = "body"
        /\ m_mutex = writer

\* C17: threads that insert pairwise disjoint keys, no more than the capacity
\* in all: every insert takes effect, and when all threads have been joined
\* size() is the number of keys and every key is found; the threads then erase
\* their keys: every erase takes effect, and when all have been joined size()
\* is 0.
C17_DisjointTasks ==
    /\ last.op \in {"insert", "erase"} => last.ret = "true"
    /\ (task = "erase" /\ \A th \in Threads : pc[th] = Idle)
          => /\ m_size = TaskCapacity
             /\ \A k \in TaskKeys : find(Tree, k) # 0
    /\ task = "done" => m_size = 0

\* The deletion threads have been joined and the map is empty.
C17_Witness ==
    /\ task = "done" /\ m_size = 0 /\ ~crashed
    /\ last.op = "erase" /\ last.ret = "true"

\* C18: when a thread returns from find(k), and insert(k, v) had returned true
\* before that find took the lock with no erase(k), extract(k) or clear
\* returning since, the find hands back v.
C18_InsertVisible ==
    [][ \A th \in Threads :
          (/\ pc[th].op = "find" /\ pc[th].at = "body" /\ pc'[th].at = "idle"
           /\ \E e \in visible : e[1] = pc[th].key)
             => /\ last'.op = "find" /\ last'.key = pc[th].key
                /\ last'.ret = "found"
                /\ <<last'.key, last'.value>> \in visible ]_vars

\* A find has handed back the value inserted for a key, from a map that holds
\* a smaller key as well.
C18_Witness ==
    /\ last.op = "find" /\ last.ret = "found"
    /\ <<last.key, last.value>> \in visible
    /\ m_size = 2
    /\ \E k \in ThreadKeys : k < last.key /\ find(Tree, k) # 0

\* C19: insert(k, v) was refused because the map held capacity-many entries
\* and k was absent; an erase then returned true; the same insert(k, v) is
\* called again: it returns true, find(k) yields v and size() is the capacity.
C19_RetryAfterErase ==
    retry.stage = "retried"
       => /\ last.op = "insert" /\ last.key = retry.key /\ last.value = retry.value
          /\ last.ret = "true"
          /\ find(Tree, retry.key) = retry.value
          /\ m_size = m_capacity

\* The refused insert has been repeated after an erase.
C19_Witness ==
    /\ retry.stage = "retried"
    /\ last.op = "insert" /\ last.ret = "true"
    /\ m_size = m_capacity

\* Every insert of seq, from position i on, returns true when applied in turn
\* to t.
RECURSIVE acceptsFrom(_, _, _)
acceptsFrom(t, seq, i) ==
    \/ i > Len(seq)
    \/ /\ FixedMap_insert(t, seq[i], 1).ret = "true"
       /\ acceptsFrom(FixedMap_insert(t, seq[i], 1).t, seq, i + 1)

\* The sequences of capacity-many distinct keys.
DistinctKeys ==
    {seq \in [1..m_capacity -> Keys] : \A i, j \in 1..m_capacity : i # j => seq[i] # seq[j]}

\* C20: when clear() has returned, size() is 0, empty() is true, find is absent
\* for every key, every slot is on the free list, and capacity-many inserts of
\* distinct keys, in any order, all return true.
C20_Clear ==
    last.op = "clear"
       => /\ last.ret = "void"
          /\ size(Tree) = 0 /\ empty(Tree)
          /\ \A k \in Keys : find(Tree, k) = 0
          /\ {FreeList(Tree)[i] : i \in 1..Len(FreeList(Tree))} = Slots
          /\ Len(FreeList(Tree)) = m_capacity
          /\ \A seq \in DistinctKeys : acceptsFrom(Tree, seq, 1)

\* clear() has emptied a map that held entries: the free list is no longer in
\* the order of construction.
C20_Witness ==
    /\ last.op = "clear" /\ last.ret = "void"
    /\ m_size = 0
    /\ m_freeNodes # 1

\* The largest key in the map, 0 when the map is empty.
MaxStoredKey ==
    IF Occupied = {} THEN 0
    ELSE CHOOSE k \in {m_nodes[i].key : i \in Occupied} :
             \A j \in Occupied : m_nodes[j].key <= k

\* C21: begin() of an empty map is the end iterator, ++ from the entry with
\* the largest key is the end iterator, and * of the end iterator throws the
\* invalid-iterator error and hands back no entry.
C21_EndDereference ==
    [][ /\ (last'.op = "begin" /\ m_size = 0) => pc'[1].it = Null
        /\ (last'.op = "++" /\ InUse(Tree, pc[1].it)
              /\ m_nodes[pc[1].it].key = MaxStoredKey) => pc'[1].it = Null
        /\ (last'.op = "*" /\ pc[1].it = Null) => last'.ret = "runtime_error" ]_vars

\* The end iterator of a map of three entries has been dereferenced.
C21_Witness ==
    /\ last.op = "*" /\ last.ret = "runtime_error"
    /\ pc[1].it = Null
    /\ m_size = 3

\* The keys in the map that are smaller than key.
SmallerKeys(key) == {m_nodes[i].key : i \in {j \in Occupied : m_nodes[j].key < key}}

\* C22: -- from end() is at the largest key; -- from an entry that has a
\* smaller one is at the largest of the smaller keys; and in every state
\* prev(next(n)) = n for an entry n with a successor, next(prev(n)) = n for
\* an entry n with a predecessor.
C22_Bidirectional ==
    [][ /\ (last'.op = "--" /\ pc[1].it = Null /\ m_size > 0)
              => /\ InUse(Tree, pc'[1].it)
                 /\ m_nodes[pc'[1].it].key = MaxStoredKey
        /\ (last'.op = "--" /\ InUse(Tree, pc[1].it)
              /\ SmallerKeys(m_nodes[pc[1].it].key) # {})
              => /\ InUse(Tree, pc'[1].it)
                 /\ m_nodes[pc'[1].it].key \in SmallerKeys(m_nodes[pc[1].it].key)
                 /\ \A k \in SmallerKeys(m_nodes[pc[1].it].key) :
                        k <= m_nodes[pc'[1].it].key
        /\ \A n \in Occupied :
              /\ next(Tree, n) # Null => prev(Tree, next(Tree, n)) = n
              /\ prev(Tree, n) # Null => next(Tree, prev(Tree, n)) = n ]_vars

\* The iterator has been decremented twice from end() in a map of four
\* entries: it is at the third key.
C22_Witness ==
    /\ last.op = "--" /\ last.ret = "iterator"
    /\ m_size = 4
    /\ InUse(Tree, pc[1].it)
    /\ Cardinality(SmallerKeys(m_nodes[pc[1].it].key)) = 2

\* The (key, value) pairs of tree t in the order of its walk.
Pairs(t) ==
    LET w == walk(t, minimum(t, t.root), t.capacity + 1)
    IN  [i \in 1..Len(w) |-> <<t.nodes[w[i]].key, t.nodes[w[i]].value>>]

\* C23: the same calls on a Red-Black tree and on an AVL tree of the same
\* capacity: every insert and erase returns the same on both, and after every
\* call both have the same size, find the same value for every key, and walk
\* the same sequence of (key, value) pairs.
C23_StrategyIndependence ==
    [][ /\ last'.op = "insert"
              => last'.ret = AVLTree_insert(other.t, last'.key, last'.value).ret
        /\ last'.op = "erase" => last'.ret = AVLTree_erase(other.t, last'.key).ret
        /\ m_size' = size(other'.t)
        /\ \A k \in DeepKeys : find(TreeNext, k) = find(other'.t, k)
        /\ Pairs(TreeNext) = Pairs(other'.t) ]_vars

\* Both trees hold the same four entries after an erase that both answered
\* with true.
C23_Witness ==
    /\ last.op = "erase" /\ last.ret = "true"
    /\ m_size = 4 /\ size(other.t) = 4
    /\ Pairs(Tree) = Pairs(other.t)

\* The node under which a key absent from tree t is attached (Null in an
\* empty tree).
RECURSIVE attachPoint(_, _, _)
attachPoint(t, node, key) ==
    IF node = Null THEN Null
    ELSE LET child == IF key < t.nodes[node].key THEN L(t, node) ELSE R(t, node)
         IN  IF child = Null THEN node ELSE attachPoint(t, child, key)

\* The other child of the parent of node (Null without a parent).
siblingOf(t, node) ==
    IF node = Null \/ P(t, node) = Null THEN Null
    ELSE IF L(t, P(t, node)) = node THEN R(t, P(t, node)) ELSE L(t, P(t, node))

RedIn(t, node) == node # Null /\ t.nodes[node].red

\* No red node of tree t has a red child.
NoRedRed(t) ==
    \A i \in 1..t.capacity :
        (t.nodes[i].in_use /\ t.nodes[i].red)
            => ~RedIn(t, L(t, i)) /\ ~RedIn(t, R(t, i))

\* The grandparent of the node that an insert of key attaches, when the
\* fix-up starts in the red-uncle case under a red great-grandparent; Null
\* otherwise.
RedUncleGrandparent(t, key) ==
    LET par == attachPoint(t, t.root, key)
        gp  == IF par = Null THEN Null ELSE P(t, par)
    IN  IF /\ gp # Null
           /\ RedIn(t, par) /\ RedIn(t, siblingOf(t, par))
           /\ RedIn(t, P(t, gp))
        THEN gp ELSE Null

\* C24: Red-Black insert into a tree without a red node under a red node,
\* attaching under a red parent with a red uncle and a red great-grandparent:
\* when the insert returns, the grandparent is not a red node under a red
\* parent.
C24_RedUncleContinues ==
    [][ ( /\ last'.op = "insert" /\ last'.ret = "true"
          /\ NoRedRed(Tree)
          /\ RedUncleGrandparent(Tree, last'.key) # Null )
        => LET gp == RedUncleGrandparent(Tree, last'.key)
           IN  ~(RedIn(TreeNext, gp) /\ RedIn(TreeNext, P(TreeNext, gp))) ]_vars

\* An insert has just attached a red node under a parent and beside an uncle
\* that were recoloured black, below a grandparent recoloured red.
C24_Witness ==
    /\ IsRB /\ last.op = "insert" /\ last.ret = "true"
    /\ \E n \in Occupied :
          /\ m_nodes[n].key = last.key /\ m_nodes[n].red
          /\ P(Tree, n) # Null /\ ~RedIn(Tree, P(Tree, n))
          /\ siblingOf(Tree, P(Tree, n)) # Null
          /\ ~RedIn(Tree, siblingOf(Tree, P(Tree, n)))
          /\ RedIn(Tree, P(Tree, P(Tree, n)))
          /\ P(Tree, P(Tree, P(Tree, n))) # Null

\* Black nodes on every path of tree t from node down to an absent child, -1
\* when two paths disagree.
RECURSIVE blackHeightIn(_, _)
blackHeightIn(t, node) ==
    IF node = Null THEN 0
    ELSE LET l == blackHeightIn(t, L(t, node))
             r == blackHeightIn(t, R(t, node))
         IN  IF l = -1 \/ r = -1 \/ l # r THEN -1
             ELSE l + (IF t.nodes[node].red THEN 0 ELSE 1)

\* The node whose position an erase of node vacates: node itself with at most
\* one child, its successor in the right subtree with two.
vacated(t, node) ==
    IF L(t, node) # Null /\ R(t, node) # Null THEN leftmost(t, R(t, node)) ELSE node

\* The child that moves into the position vacated(t, node) leaves (Null when
\* there is none).
replacing(t, node) ==
    LET v == vacated(t, node) IN
    IF v # node THEN R(t, v)
    ELSE IF L(t, node) # Null THEN L(t, node) ELSE R(t, node)

\* C25: Red-Black erase from a tree whose paths hold equal numbers of black
\* nodes, where the vacated position was black and no child replaces it: the
\* delete fix-up runs, so the paths hold equal numbers of black nodes again
\* when the erase returns.
C25_FixUpWithoutChild ==
    [][ ( /\ IsRB /\ last'.op = "erase" /\ last'.ret = "true"
          /\ blackHeightIn(Tree, m_root) # -1
          /\ LET node == findNode(Tree, last'.key)
             IN  /\ node # Null
                 /\ ~Tree.nodes[vacated(Tree, node)].red
                 /\ replacing(Tree, node) = Null )
        => blackHeightIn(TreeNext, m_root') # -1 ]_vars

\* A black leaf was just erased beside a sibling subtree that still holds a
\* black node: the tree is left with a root, no child on one side, and a
\* black child on the other.
C25_Witness ==
    /\ IsRB /\ last.op = "erase" /\ last.ret = "true"
    /\ m_root # Null
    /\ \/ (L(Tree, m_root) = Null /\ R(Tree, m_root) # Null /\ ~RedIn(Tree, R(Tree, m_root)))
       \/ (R(Tree, m_root) = Null /\ L(Tree, m_root) # Null /\ ~RedIn(Tree, L(Tree, m_root)))

\* Every occupied node of tree t stores 1 + the larger height of its children
\* and its children's heights differ by at most 1.
AVLSound(t) ==
    \A i \in 1..t.capacity :
        t.nodes[i].in_use =>
            /\ t.nodes[i].height = 1 + Max(getHeight(t, L(t, i)), getHeight(t, R(t, i)))
            /\ Abs(balanceFactor(t, i)) <= 1

\* The three cases of an erase of node: "single" with at most one child,
\* "direct" when the successor is the right child of node, "deep" when it
\* lies deeper in the right subtree.
eraseCase(t, node) ==
    IF ~InUse(t, L(t, node)) \/ ~InUse(t, R(t, node)) THEN "single"
    ELSE IF P(t, minimum(t, R(t, node))) = node THEN "direct"
    ELSE "deep"

\* C26: AVL erase from a tree with right heights and balance, in each of the
\* three cases: the heights are recomputed and the balance restored from the
\* parent of the vacated position up to the root, so every occupied node
\* stores the right height and is balanced when the erase returns.
C26_RebalanceFromParent ==
    [][ ( /\ IsAVL /\ last'.op = "erase" /\ last'.ret = "true"
          /\ AVLSound(Tree)
          /\ eraseCase(Tree, findNode(Tree, last'.key)) \in {"single", "deep", "direct"} )
        => AVLSound(TreeNext) ]_vars

\* The root was just erased and its right child, the successor, took its
\* place above the old left subtree.
C26_Witness ==
    /\ IsAVL /\ last.op = "erase" /\ last.ret = "true"
    /\ m_root # Null /\ m_nodes[m_root].key > last.key
    /\ L(Tree, m_root) # Null /\ m_nodes[L(Tree, m_root)].key < last.key
    /\ R(Tree, m_root) = Null

\* The slots linked below node in tree t, parent first, following left and
\* right links at most fuel levels down; a slot linked twice is listed twice.
RECURSIVE preorder(_, _, _)
preorder(t, node, fuel) ==
    IF node = Null \/ fuel = 0 THEN <<>>
    ELSE <<node>> \o preorder(t, L(t, node), fuel - 1) \o preorder(t, R(t, node), fuel - 1)

Range(seq) == {seq[i] : i \in DOMAIN seq}

\* The slots linked in the tree of the state.
Linked == Range(preorder(Tree, m_root, m_capacity))

\* C27: in every reachable state a slot is occupied exactly when it is linked
\* in the tree and unoccupied exactly when it is on the free list, no slot is
\* both linked and free, the free list visits no slot twice, and the occupied
\* slots and the free list together count capacity.
C27_ArenaConservation ==
    LET free == FreeList(Tree) IN
    /\ \A i \in Slots : m_nodes[i].in_use <=> i \in Linked
    /\ \A i \in Slots : ~m_nodes[i].in_use <=> i \in Range(free)
    /\ Linked \cap Range(free) = {}
    /\ \A a, b \in DOMAIN free : a # b => free[a] # free[b]
    /\ Cardinality(Occupied) + Len(free) = m_capacity

\* Two slots are linked and two are free after an erase that took a node out
\* of a tree of three.
C27_Witness ==
    /\ last.op = "erase" /\ last.ret = "true"
    /\ Cardinality(Linked) = 2 /\ Len(FreeList(Tree)) = 2
    /\ m_freeNodes # Null /\ m_nodes[m_freeNodes].right # Null

\* The keys stored below node in tree t.
KeysBelow(t, node) == {t.nodes[i].key : i \in Range(preorder(t, node, t.capacity))}

\* C28: in every reachable state the occupied nodes form one binary search
\* tree: every occupied slot is linked from the root exactly once and no other
\* slot is, the root has no parent, the parent link of every child names the
\* node that links to it, and every key in the left subtree of a node is
\* smaller and every key in its right subtree greater than the node's key.
C28_OneSearchTree ==
    LET order == preorder(Tree, m_root, m_capacity) IN
    /\ Range(order) = Occupied
    /\ Len(order) = Cardinality(Occupied)
    /\ m_root # Null => m_nodes[m_root].parent = Null
    /\ \A i \in Occupied :
          /\ L(Tree, i) # Null => P(Tree, L(Tree, i)) = i
          /\ R(Tree, i) # Null => P(Tree, R(Tree, i)) = i
          /\ \A k \in KeysBelow(Tree, L(Tree, i)) : k < m_nodes[i].key
          /\ \A k \in KeysBelow(Tree, R(Tree, i)) : k > m_nodes[i].key

\* A node with two children was just erased from a tree of four: its
\* successor took its place as the root above a left and a right child.
C28_Witness ==
    /\ last.op = "erase" /\ last.ret = "true" /\ m_size = 3
    /\ m_root # Null /\ L(Tree, m_root) # Null /\ R(Tree, m_root) # Null
    /\ m_nodes[L(Tree, m_root)].key < last.key /\ last.key < m_nodes[m_root].key

\* The node that the last arena function worked on, as it left it.
Handed == pc[1].snap.nodes[pc[1].it]

\* C29: a node handed out by allocateNode is in use, has no left, right or
\* parent link and carries the default tag of the strategy (red; height 1),
\* whatever the slot held before; a node released by deallocateNode is not in
\* use, has its tag reset (not red; height 0) and no left or parent link.
C29_AcquireRelease ==
    /\ last.op = "allocateNode" =>
          /\ Handed.in_use
          /\ Handed.left = Null /\ Handed.right = Null /\ Handed.parent = Null
          /\ IsRB => Handed.red
          /\ IsAVL => Handed.height = 1
    /\ last.op = "deallocateNode" =>
          /\ ~Handed.in_use
          /\ Handed.left = Null /\ Handed.parent = Null
          /\ IsRB => ~Handed.red
          /\ IsAVL => Handed.height = 0

\* allocateNode hands out a slot that an erase released earlier: its right
\* link still leads back to a lower slot of the free list.
C29_Witness ==
    /\ last.op = "allocateNode" /\ pc[1].it = m_freeNodes
    /\ IsAVL /\ Handed.height = 1 /\ Handed.right = Null
    /\ m_nodes[m_freeNodes].right # Null
    /\ m_nodes[m_freeNodes].right < m_freeNodes

\* Height of the subtree of tree t at node, counted in nodes (leaf 1,
\* absent 0).
RECURSIVE heightIn(_, _)
heightIn(t, node) ==
    IF node = Null THEN 0
    ELSE 1 + Max(heightIn(t, L(t, node)), heightIn(t, R(t, node)))

\* ceil(1.44 * log2(size + 2)) for size 1..7.
HeightBound == <<3, 3, 4, 4, 5, 5, 5>>

\* The tree holds the keys 1..m_size, inserted in ascending order: the
\* constructor chains the free slots 1, 2, ..., and with no erase the n-th
\* successful insert takes slot n.
Ascending ==
    /\ m_size >= 1
    /\ \A i \in 1..m_size : m_nodes[i].in_use /\ m_nodes[i].key = i

\* C30: AVL, keys 1..7 inserted in ascending order into a tree of capacity 7:
\* after each insert the height is at most 3, 3, 4, 4, 5, 5, 5 for sizes
\* 1..7, and after the last the walk from minimum() visits 1, 2, ..., 7.
C30_AscendingHeights ==
    (IsAVL /\ Ascending /\ m_size <= Len(HeightBound)) =>
        /\ heightIn(Tree, m_root) <= HeightBound[m_size]
        /\ m_size = Len(HeightBound) =>
              [i \in 1..Len(InOrder) |-> m_nodes[InOrder[i]].key]
                  = [i \in 1..Len(HeightBound) |-> i]

\* The seventh ascending insert has returned.
C30_Witness ==
    /\ IsAVL /\ Ascending /\ m_size = 7
    /\ last = [op |-> "insert", key |-> 7, value |-> 1, ret |-> "true"]
    /\ heightIn(Tree, m_root) = 3

\* C31: an iterator on the entry of key k, across an insert or an erase of
\* another key that returns: it still refers to the same node and
\* dereferences to k and the value of k, also when the erase moves k's node
\* into the place of the removed node and when the call rotates.
C31_IteratorStable ==
    [][ ( /\ last'.op \in {"insert", "erase"} /\ last'.ret \in {"true", "false"}
          /\ InUse(Tree, pc[1].it)
          /\ last'.key # m_nodes[pc[1].it].key )
        => /\ pc'[1].it = pc[1].it
           /\ Iterator_deref(TreeNext, pc'[1].it)
                 = [ret |-> "pair", key |-> m_nodes[pc[1].it].key,
                    value |-> find(Tree, m_nodes[pc[1].it].key)] ]_vars

\* The key just erased lay between the iterator's key and the keys of the
\* left subtree below the iterator's node: the node stands where a removed
\* node with two children stood.
C31_Witness ==
    /\ last.op = "erase" /\ last.ret = "true"
    /\ InUse(Tree, pc[1].it)
    /\ L(Tree, pc[1].it) # Null /\ R(Tree, pc[1].it) # Null
    /\ m_nodes[L(Tree, pc[1].it)].key < last.key
    /\ last.key < m_nodes[pc[1].it].key
    /\ \A i \in Occupied : ~(last.key < m_nodes[i].key /\ m_nodes[i].key < m_nodes[pc[1].it].key)

\* The keys whose insert has returned.
Returned == {TaskKey(th, j) : th \in Threads, j \in 0..(LongTask - 1)} \cap
            UNION {{TaskKey(th, j) : j \in 0..(pc[th].i - 1)} : th \in Threads}

\* C32: threads insert pairwise disjoint keys, TaskCapacity in all, directly
\* into one tree: every insert that has returned took effect, its key is
\* found, and between calls size() counts them, so that size() is
\* TaskCapacity once all have finished; once the threads have then erased all
\* those keys, size() is 0.
C32_DisjointTreeTasks ==
    /\ task \in {"insert", "raced"} =>
          /\ \A k \in Returned : find(Tree, k) # 0
          /\ (\A th \in Threads : pc[th].at = "idle") => m_size = Cardinality(Returned)
    /\ task = "done" => m_size = 0

\* Two inserts have returned, the second on the node the first had taken:
\* size() is 1.
C32_Witness ==
    /\ task = "raced"
    /\ \A th \in Threads : pc[th].at = "idle"
    /\ Cardinality(Returned) = 2
    /\ m_size = 1

\* C33: under fair scheduling every call of a thread returns; no thread waits
\* for a mutex forever, also not in a.merge(b) beside b.merge(a) and not in
\* a.merge(a).
C33_DeadlockFree ==
    \A th \in Threads : (pc[th].at # "idle") ~> (pc[th].at = "idle")

\* Thread 1 is in a.merge(b) with b's mutex, about to insert into a; thread 2
\* is in b.merge(a) with a's mutex, about to insert into b.
C33_Witness ==
    /\ pc[1].op = "merge" /\ pc[1].at = "loop" /\ pc[1].it # Null
    /\ pc[2].op = "other.merge" /\ pc[2].at = "loop" /\ pc[2].it # Null
    /\ other.mutex = 1 /\ m_mutex = 2

\* C34: every insert and every erase in a state reached by insert, erase and
\* clear comes to its end: the balance walk and the fix-up loops reach their
\* exit condition and the call returns true or false.
C34_CallsReturn ==
    last.op \in {"insert", "erase"} => last.ret \in {"true", "false"}

\* A Red-Black erase went round its delete fix-up loop again after the
\* terminal case and did not return.
C34_Witness ==
    /\ IsRB /\ last.op = "erase" /\ last.ret = "crash"
    /\ HasKey(last.key) /\ m_size = DeepCapacity

\* C35: Red-Black, in every state reached by insert, erase and clear: no
\* insert and no erase of any key reads through an absent node in its fix-up
\* (grandparent, sibling or nephew).
C35_NoAbsentNode ==
    IsRB =>
        \A k \in DeepKeys :
            /\ ~RBTree_insert(Tree, k, 1).t.fault
            /\ ~RBTree_erase(Tree, k).t.fault

\* A full Red-Black tree with a present key whose erase reads through an
\* absent node in the delete fix-up, while no insert does.
C35_Witness ==
    /\ IsRB /\ ~crashed /\ m_size = DeepCapacity
    /\ \E k \in DeepKeys : HasKey(k) /\ RBTree_erase(Tree, k).t.fault
    /\ \A k \in DeepKeys : ~RBTree_insert(Tree, k, 1).t.fault

\* C36: map[k] never hands back a reference taken from an absent lookup:
\* every map[k] that returns, returns a reference to the entry of k, also on
\* a full map without k and also when another thread erases k or fills the
\* map between the three locked steps of the call.
C36_IndexNeverAbsent ==
    last.op = "index" => (last.ret = "reference" /\ find(Tree, last.key) # 0)

\* map[k] has handed back a reference to no entry although the map has room:
\* another thread erased k after the insert of map[k].
C36_Witness ==
    /\ last.op = "index" /\ last.ret = "null_reference"
    /\ m_size < m_capacity

\* C37: in every reachable state size() is the number of nodes linked from
\* the root and the number of occupied slots, and the free list holds
\* capacity - size() slots; so a map with size() < capacity has a free node
\* and the allocateNode inside insert does not throw.
C37_SizeCounts ==
    /\ m_size = Len(preorder(Tree, m_root, m_capacity))
    /\ m_size = Cardinality(Occupied)
    /\ Len(FreeList(Tree)) = m_capacity - m_size
    /\ m_size < m_capacity =>
          /\ m_freeNodes # Null
          /\ \A k \in DeepKeys : tree_insert(Tree, k, 1).ret # "out_of_range"

\* An insert into a tree with one free node left, after an erase had made
\* room, has taken that node: the tree is full again.
C37_Witness ==
    /\ last.op = "insert" /\ last.ret = "true"
    /\ m_size = m_capacity /\ m_freeNodes = Null
    /\ m_root # Null /\ \E i \in Occupied : i # m_size /\ m_nodes[i].key = last.key

\* The abstract map a tree stands for: a partial function from keys to
\* values, 0 where it is undefined.
Abstract(t) == [k \in Keys |-> find(t, k)]
Defined(f) == {k \in Keys : f[k] # 0}

\* The five calls on a partial function of at most capacity keys. A call
\* that would need one key more than capacity is refused and says so.
AbstractCall(f, capacity, op, key, value) ==
    CASE op = "insert" ->
           IF key \in Defined(f) \/ Cardinality(Defined(f)) >= capacity
           THEN [f |-> f, ret |-> "false", value |-> value]
           ELSE [f |-> [f EXCEPT ![key] = value], ret |-> "true", value |-> value]
      [] op = "erase" ->
           IF key \in Defined(f)
           THEN [f |-> [f EXCEPT ![key] = 0], ret |-> "true", value |-> 0]
           ELSE [f |-> f, ret |-> "false", value |-> 0]
      [] op = "clear" ->
           [f |-> [k \in Keys |-> 0], ret |-> "void", value |-> 0]
      [] op = "insert_or_assign" ->
           IF key \in Defined(f)
           THEN [f |-> [f EXCEPT ![key] = value], ret |-> "false", value |-> value]
           ELSE IF Cardinality(Defined(f)) >= capacity
                THEN [f |-> f, ret |-> "refused", value |-> value]
                ELSE [f |-> [f EXCEPT ![key] = value], ret |-> "true", value |-> value]
      [] op = "extract" ->
           IF key \in Defined(f)
           THEN [f |-> [f EXCEPT ![key] = 0], ret |-> "pair", value |-> f[key]]
           ELSE [f |-> f, ret |-> "out_of_range", value |-> 0]

\* C38: the map refines an abstract partial function of at most capacity
\* keys: every insert, erase, clear, insert_or_assign and extract returns
\* what the same call returns on the function the tree stood for, and
\* afterwards every find(k) and size() are those of the function the call
\* leaves.
C38_RefinesAbstractMap ==
    [][ last'.op \in {"insert", "erase", "clear", "insert_or_assign", "extract"}
           => \E a \in {AbstractCall(Abstract(Tree), m_capacity, last'.op,
                                     last'.key, last'.value)} :
                 /\ last'.ret = a.ret
                 /\ a.ret = "pair" => last'.value = a.value
                 /\ Abstract(TreeNext) = a.f
                 /\ m_size' = Cardinality(Defined(a.f)) ]_vars

\* insert_or_assign of an absent key has answered false on a full map that
\* holds a value an earlier insert_or_assign assigned.
C38_Witness ==
    /\ last.op = "insert_or_assign" /\ last.ret = "false"
    /\ Abstract(Tree)[last.key] = 0
    /\ Cardinality(Defined(Abstract(Tree))) = m_capacity
    /\ \E k \in Keys : Abstract(Tree)[k] = 2

\* C39: an iterator whose entry has just been erased (the erase of last.key
\* released the slot it refers to) never yields the entry of another key:
\* after the next call, short of a new begin() or end(), dereferencing it
\* does not return a pair with a key other than the erased one, also when
\* that call is an insert that re-acquires the slot or an advance of the
\* iterator.
C39_ErasedStaysInvalid ==
    [][ ( /\ last.op = "erase" /\ last.ret = "true"
          /\ pc[1].it # Null /\ pc[1].it = m_freeNodes
          /\ last'.op \notin {"begin", "end"} )
        => ~ ( /\ Iterator_deref(TreeNext, pc'[1].it).ret = "pair"
               /\ Iterator_deref(TreeNext, pc'[1].it).key # last.key ) ]_vars

\* The iterator stands on the node of the key just inserted without having
\* moved: the insert took the slot of the iterator's erased entry, and the
\* map holds that key and others.
C39_Witness ==
    /\ last.op = "insert" /\ last.ret = "true"
    /\ InUse(Tree, pc[1].it) /\ m_nodes[pc[1].it].key = last.key
    /\ Iterator_deref(Tree, pc[1].it).ret = "pair"
    /\ m_size > 1

\* C40: no thread locks a mutex that it holds: no thread inside
\* FixedUnorderedMap::operator[] stands before, or is blocked in, the
\* lock_guard of find while it owns m_mutex.
C40_NoRelock ==
    \A th \in Threads :
        (pc[th].op = "index" /\ pc[th].at \in {"find", "waiting"}) => m_mutex # th

\* A thread is blocked for ever in map[k] on the mutex it took itself, with
\* entries in the map and k not among them.
C40_Witness ==
    \E th \in Threads :
        /\ pc[th].op = "index" /\ pc[th].at = "waiting" /\ m_mutex = th
        /\ m_size > 1
        /\ chainFind(Unordered, getBucketIndex(Unordered, pc[th].key), pc[th].key) = 0

====
